---- MODULE Spec2Model ----
(***************************************************************************)
(* ClaudeOnTheBeach: the terminal state classification and completion      *)
(* arbitration engine (client/utils/*.py) and the monitoring loop with the *)
(* Telegram command handler (client/claudeOnTheBeach.py).                  *)
(*                                                                         *)
(* Texts are TLA+ strings; Python's str operations are operators over      *)
(* them.  Strings are ASCII: the emoji of the source are written as        *)
(* bracketed ASCII tags ("[ok]" for the check-mark button, and so on).     *)
(* Confidences and similarity scores are percentages (0.85 is 85).         *)
(* Timestamps are kept as ages (now - timestamp), saturated at the largest *)
(* threshold the code compares them with, so that time can pass forever in *)
(* a finite state space.                                                   *)
(***************************************************************************)
EXTENDS Integers, Sequences, FiniteSets, TLC

(***************************************************************************)
(* Python values and str operations                                        *)
(***************************************************************************)
None == "<None>"
NoTime == 0 - 1

Min(a, b) == IF a <= b THEN a ELSE b
Max(a, b) == IF a >= b THEN a ELSE b

CharAt(s, i) == SubSeq(s, i, i)

\* p in s
Contains(s, p) ==
    \E i \in 1..(Len(s) - Len(p) + 1) : SubSeq(s, i, i + Len(p) - 1) = p

UpperChars == "ABCDEFGHIJKLMNOPQRSTUVWXYZ"
LowerChars == "abcdefghijklmnopqrstuvwxyz"
Digits == "0123456789"

IsIn(c, chars) == \E i \in 1..Len(chars) : CharAt(chars, i) = c

LowerMap ==
    [c \in {CharAt(UpperChars, i) : i \in 1..Len(UpperChars)} |->
        CharAt(LowerChars, CHOOSE i \in 1..Len(UpperChars) : CharAt(UpperChars, i) = c)]

LowerChar(c) == IF c \in DOMAIN LowerMap THEN LowerMap[c] ELSE c

\* s.lower()
RECURSIVE Lower(_)
Lower(s) == IF s = "" THEN "" ELSE LowerChar(Head(s)) \o Lower(Tail(s))

\* \w of Python's re, on ASCII text
IsWordChar(c) == IsIn(c, UpperChars) \/ IsIn(c, LowerChars) \/ IsIn(c, Digits) \/ c = "_"

IsSpace(c) == c = " "

\* s.strip()
RECURSIVE LStrip(_)
LStrip(s) == IF s # "" /\ IsSpace(Head(s)) THEN LStrip(Tail(s)) ELSE s
RECURSIVE RStrip(_)
RStrip(s) ==
    IF s # "" /\ IsSpace(CharAt(s, Len(s))) THEN RStrip(SubSeq(s, 1, Len(s) - 1)) ELSE s
Strip(s) == RStrip(LStrip(s))

\* [p for p in list if p.lower() in text_lower]
RECURSIVE FoundIn(_, _)
FoundIn(list, text_lower) ==
    IF list = <<>> THEN <<>>
    ELSE (IF Contains(text_lower, Lower(Head(list))) THEN <<Head(list)>> ELSE <<>>)
         \o FoundIn(Tail(list), text_lower)

\* the function f with every value computed (once, where f is a constant)
Tabulated(f) == f @@ <<>>

\* any(p in text for p in list)
AnyIn(list, text) == \E k \in 1..Len(list) : Contains(text, list[k])

(***************************************************************************)
(* Config (client/config.py)                                               *)
(***************************************************************************)
STATUS_UPDATE_INTERVAL == 2
COMPLETION_CHECK_INTERVAL == 1
MAX_WAIT == 300
STATIC_SCREEN_TIMEOUT == 30
COMPLETION_CONFIRMATION_DELAY == 3
QUESTION_CONTEXT_WINDOW == 5
QUESTION_SIMILARITY_THRESHOLD == 75
QUESTION_TIMEOUT_SECONDS == 300

STATUS_WORDS ==
    <<"grooving", "swooping", "caramelizing", "bewitching", "fermenting", "imagining">>
RUNNING_INDICATORS == <<"running", "running the tests", "+ running">>
ESC_INTERRUPT_PATTERN == "(esc to interrupt)"
COMPLETION_INDICATORS ==
    <<"claude opus limit reached", "now using sonnet", "model limit reached",
      "switching to", "falling back to", "using sonnet", "using opus",
      "model change", "limit reached">>

TaskTypes == <<"test", "script", "file", "install", "build", "run", "search", "analyze">>

TASK_COMPLETION_PATTERNS(task_type) ==
    CASE task_type = "test" ->
           <<"all tests pass", "test passed", "pytest passed", "[check]", "PASSED">>
      [] task_type = "script" ->
           <<"done", "finished", "complete", "script completed", "execution finished">>
      [] task_type = "file" ->
           <<"file created", "file saved", "write complete", "saved successfully">>
      [] task_type = "install" ->
           <<"installation complete", "installed successfully", "setup complete">>
      [] task_type = "build" ->
           <<"build complete", "compilation finished", "build successful">>
      [] task_type = "run" ->
           <<"execution complete", "program finished", "process completed">>
      [] OTHER -> <<>>

HasCompletionPatterns(task_type) ==
    task_type \in {"test", "script", "file", "install", "build", "run"}

STRONG_COMPLETION_INDICATORS ==
    <<"[ok]", "[check]", "PASSED", "SUCCESS", "COMPLETE", "DONE", "FINISHED",
      "all tests pass", "installation complete", "build successful",
      "script completed", "execution finished", "process completed">>

WEAK_COMPLETION_INDICATORS ==
    <<"ready", "available", "prepared", "configured", "set up",
      "waiting for input", "prompt", ">", "command line">>

(***************************************************************************)
(* LLMAnalyzer (client/utils/llm_analyzer.py)                              *)
(***************************************************************************)
RequiredKeys == {"status", "needs_input", "is_complete", "question"}

\* _fallback_analysis
FallbackAnalysis ==
    [status |-> "Status unknown (no API)", needs_input |-> FALSE,
     is_complete |-> TRUE, question |-> None, screenshots_match |-> TRUE]

\* _parse_llm_response on a backend reply.  A reply is
\* [error, json, keys, body]: whether the call raised, whether the text holds
\* a JSON object json.loads accepts, the keys of that object, and its values.
\* The result is [raised |-> TRUE] when the method raises ValueError.
ParseLLMResponse(reply) ==
    IF ~reply.json THEN [raised |-> TRUE]
    ELSE IF ~(RequiredKeys \subseteq reply.keys) THEN [raised |-> TRUE]
    ELSE [raised |-> FALSE,
          analysis |->
            [status |-> reply.body.status,
             needs_input |-> reply.body.needs_input,
             is_complete |-> reply.body.is_complete,
             question |-> reply.body.question,
             screenshots_match |->
                IF "screenshots_match" \in reply.keys
                THEN reply.body.screenshots_match ELSE TRUE]]

\* analyze_screenshot_with_llm: the report of one call, given whether a
\* client is configured and the backend's reply
AnalyzeScreenshotWithLLM(claude_client, reply) ==
    IF ~claude_client THEN FallbackAnalysis
    ELSE IF reply.error THEN FallbackAnalysis
    ELSE IF ParseLLMResponse(reply).raised THEN FallbackAnalysis
    ELSE ParseLLMResponse(reply).analysis

\* the tests validate_completion_status makes on a status text
StatusMarks(status) ==
    LET status_lower == Lower(status) IN
    [completion |-> AnyIn(COMPLETION_INDICATORS, status_lower),
     active |-> \/ Contains(status_lower, ESC_INTERRUPT_PATTERN)
                \/ AnyIn(STATUS_WORDS, status_lower)
                \/ AnyIn(RUNNING_INDICATORS, status_lower)]

\* the status texts of the model, and the tests on each, evaluated once
StatusTexts ==
    {"Installing dependencies", "Installing packages... (esc to interrupt)",
     "Ready for input", "Confirm", "Status unknown (no API)",
     "Task completed (llm_validated)", "All tests pass",
     "[ok] all tests pass + Running the tests", "Grooving",
     "Now using Sonnet (esc to interrupt)", "Model limit reached, continue?",
     "Continue? (esc to interrupt)", "Task completed (model switch detected)",
     "Still processing"}
StatusMarksOf == Tabulated([status \in StatusTexts |-> StatusMarks(status)])
Marks(status) ==
    IF status \in DOMAIN StatusMarksOf THEN StatusMarksOf[status]
    ELSE StatusMarks(status)

\* a validation whose completion text carries a running phrase
C39_Mutant_ValidateCompletionStatus(status_info) ==
    IF Marks(status_info.status).completion
    THEN [status_info EXCEPT !.is_complete = TRUE,
                             !.status = "[ok] all tests pass + Running the tests"]
    ELSE IF status_info.is_complete /\ Marks(status_info.status).active
    THEN [status_info EXCEPT !.is_complete = FALSE, !.status = "Still processing"]
    ELSE status_info

C18_Mutant_ValidateCompletionStatus(status_info) ==
    IF Marks(status_info.status).completion
    THEN [status_info EXCEPT !.is_complete = TRUE,
                             !.status = "Task completed (model switch detected)"]
    ELSE IF status_info.is_complete /\ Contains(Lower(status_info.status),
                                                ESC_INTERRUPT_PATTERN)
    THEN [status_info EXCEPT !.is_complete = FALSE, !.status = "Still processing"]
    ELSE status_info

\* validate_completion_status
ValidateCompletionStatus(status_info) ==
    IF Marks(status_info.status).completion
    THEN [status_info EXCEPT !.is_complete = TRUE,
                             !.status = "Task completed (model switch detected)"]
    ELSE IF status_info.is_complete /\ Marks(status_info.status).active
    THEN [status_info EXCEPT !.is_complete = FALSE, !.status = "Still processing"]
    ELSE status_info

(***************************************************************************)
(* TaskClassifier (client/utils/task_classifier.py)                        *)
(***************************************************************************)
\* task_patterns: <<w>> is the regex \bw\b, <<v, w>> the regex \bv.*w\b
TaskPatterns(task_type) ==
    CASE task_type = "test" ->
           <<<<"test">>, <<"pytest">>, <<"unittest">>, <<"check">>, <<"verify">>,
             <<"run tests">>, <<"execute tests">>, <<"test suite">>, <<"testing">>>>
      [] task_type = "script" ->
           <<<<"script">>, <<"python">>, <<"node">>, <<"ruby">>, <<"perl">>,
             <<"execute">>, <<"run">>, <<"start">>, <<"launch">>, <<"create", "script">>>>
      [] task_type = "file" ->
           <<<<"file">>, <<"create">>, <<"write">>, <<"save">>, <<"edit">>,
             <<"modify">>, <<"update">>, <<"generate">>, <<"output", "file">>>>
      [] task_type = "install" ->
           <<<<"install">>, <<"setup">>, <<"configure">>, <<"init">>, <<"initialize">>,
             <<"package">>, <<"dependency">>, <<"requirements">>, <<"npm install">>,
             <<"pip install">>, <<"brew install">>, <<"apt install">>>>
      [] task_type = "build" ->
           <<<<"build">>, <<"compile">>, <<"make">>, <<"cmake">>, <<"gradle">>,
             <<"maven">>, <<"webpack">>, <<"bundler">>, <<"construction">>>>
      [] task_type = "run" ->
           <<<<"run">>, <<"execute">>, <<"start">>, <<"launch">>, <<"process">>,
             <<"program">>, <<"application">>, <<"server">>, <<"service">>>>
      [] task_type = "search" ->
           <<<<"search">>, <<"find">>, <<"lookup">>, <<"query">>, <<"discover">>,
             <<"explore">>, <<"scan">>, <<"seek">>>>
      [] task_type = "analyze" ->
           <<<<"analyze">>, <<"examine">>, <<"investigate">>, <<"study">>, <<"debug">>,
             <<"profile">>, <<"optimize">>, <<"performance">>>>

\* \b before position i and after position j of s
BoundaryBefore(s, i) == i = 1 \/ ~IsWordChar(CharAt(s, i - 1))
BoundaryAfter(s, j) == j = Len(s) \/ ~IsWordChar(CharAt(s, j + 1))
WordAt(s, w, i) == SubSeq(s, i, i + Len(w) - 1) = w

\* pattern.search(command_lower) for a compiled pattern
PatternSearch(pat, s) ==
    IF Len(pat) = 1
    THEN \E i \in 1..(Len(s) - Len(pat[1]) + 1) :
            /\ WordAt(s, pat[1], i)
            /\ BoundaryBefore(s, i)
            /\ BoundaryAfter(s, i + Len(pat[1]) - 1)
    ELSE \E i \in 1..Len(s), j \in 1..Len(s) :
            /\ i + Len(pat[1]) <= j
            /\ j + Len(pat[2]) - 1 <= Len(s)
            /\ WordAt(s, pat[1], i) /\ BoundaryBefore(s, i)
            /\ WordAt(s, pat[2], j) /\ BoundaryAfter(s, j + Len(pat[2]) - 1)

\* the text of a pattern as written in task_patterns (a raw regex string)
PatternSource(pat) ==
    IF Len(pat) = 1 THEN "\\b" \o pat[1] \o "\\b"
    ELSE "\\b" \o pat[1] \o ".*" \o pat[2] \o "\\b"

\* twice the score of a task type: 1 per regex match, 0.5 per pattern whose
\* source text is a substring of the command
RECURSIVE PatternScore2(_, _)
PatternScore2(pats, command_lower) ==
    IF pats = <<>> THEN 0
    ELSE (IF PatternSearch(Head(pats), command_lower) THEN 2 ELSE 0)
         + (IF Contains(command_lower, Lower(PatternSource(Head(pats)))) THEN 1 ELSE 0)
         + PatternScore2(Tail(pats), command_lower)

TaskScore2(task_type, command) == PatternScore2(TaskPatterns(task_type), Lower(command))

\* classify_task with a max() that keeps the last maximum
C32_Mutant_ClassifyTask(command) ==
    IF command = "" THEN "unknown"
    ELSE LET scores == [k \in 1..Len(TaskTypes) |-> TaskScore2(TaskTypes[k], command)]
             best == CHOOSE k \in 1..Len(TaskTypes) :
                 /\ \A m \in 1..Len(TaskTypes) : scores[m] <= scores[k]
                 /\ \A m \in (k + 1)..Len(TaskTypes) : scores[m] < scores[k]
         IN IF scores[best] > 0 THEN TaskTypes[best] ELSE "unknown"

\* classify_task (context is never passed): max() keeps the first maximum
\* in the dict's insertion order
ClassifyTask(command) ==
    IF command = "" THEN "unknown"
    ELSE LET scores == [k \in 1..Len(TaskTypes) |-> TaskScore2(TaskTypes[k], command)]
             best == CHOOSE k \in 1..Len(TaskTypes) :
                 /\ \A m \in 1..Len(TaskTypes) : scores[m] <= scores[k]
                 /\ \A m \in 1..(k - 1) : scores[m] < scores[k]
         IN IF scores[best] > 0 THEN TaskTypes[best] ELSE "unknown"

(***************************************************************************)
(* StaticScreenDetector (client/utils/static_screen_detector.py)           *)
(* last_change_time and static_start_time are ages; NoTime is None.        *)
(***************************************************************************)
NoHash == 0

StaticDetectorInit ==
    [last_screenshot_hash |-> NoHash, last_change_time |-> NoTime,
     static_start_time |-> NoTime, is_static |-> FALSE]

C20_Mutant_UpdateScreenshot(sd, current_hash) ==
    IF current_hash # sd.last_screenshot_hash
    THEN [sd |-> [sd EXCEPT !.last_screenshot_hash = current_hash,
                            !.last_change_time = 0, !.is_static = FALSE],
          result |-> [is_static |-> FALSE, static_duration |-> 0,
                      should_complete |-> FALSE]]
    ELSE LET start == IF sd.static_start_time = NoTime THEN 0 ELSE sd.static_start_time
         IN [sd |-> [sd EXCEPT !.static_start_time = start, !.is_static = TRUE],
             result |-> [is_static |-> TRUE, static_duration |-> start,
                         should_complete |-> start >= STATIC_SCREEN_TIMEOUT]]

\* update_screenshot: the detector's next state and the returned dict
UpdateScreenshot(sd, current_hash) ==
    IF current_hash # sd.last_screenshot_hash
    THEN [sd |-> [last_screenshot_hash |-> current_hash, last_change_time |-> 0,
                  static_start_time |-> NoTime, is_static |-> FALSE],
          result |-> [is_static |-> FALSE, static_duration |-> 0,
                      should_complete |-> FALSE]]
    ELSE LET start == IF sd.static_start_time = NoTime THEN 0 ELSE sd.static_start_time
         IN [sd |-> [sd EXCEPT !.static_start_time = start, !.is_static = TRUE],
             result |-> [is_static |-> TRUE, static_duration |-> start,
                         should_complete |-> start >= STATIC_SCREEN_TIMEOUT]]

(***************************************************************************)
(* CompletionDetector (client/utils/completion_detector.py)                *)
(***************************************************************************)
CompletionDetectorInit ==
    [completion_start_time |-> NoTime, task_type |-> None,
     static_screen_start |-> NoTime]

\* _extract_text_from_screenshot: a placeholder that returns no text
ExtractTextFromScreenshot(screenshot_data) == ""

\* _check_strong_completion_indicators
CheckStrongCompletionIndicators(text) ==
    FoundIn(STRONG_COMPLETION_INDICATORS, Lower(text))

\* _check_task_specific_completion
CheckTaskSpecificCompletion(text, task_type) ==
    IF ~HasCompletionPatterns(task_type) THEN <<>>
    ELSE FoundIn(TASK_COMPLETION_PATTERNS(task_type), Lower(text))

\* _check_weak_completion_indicators
CheckWeakCompletionIndicators(text) ==
    FoundIn(WEAK_COMPLETION_INDICATORS, Lower(text))

\* _validate_llm_completion
ValidateLLMCompletion(text, status_info) ==
    IF status_info.is_complete
    THEN LET active_indicators ==
                 FoundIn(STATUS_WORDS, Lower(text))
                 \o FoundIn(RUNNING_INDICATORS, Lower(text))
                 \o FoundIn(<<ESC_INTERRUPT_PATTERN>>, Lower(text))
         IN IF active_indicators # <<>>
            THEN [valid |-> FALSE, indicators |-> active_indicators]
            ELSE [valid |-> TRUE, indicators |-> CheckWeakCompletionIndicators(text)]
    ELSE [valid |-> FALSE, indicators |-> <<>>]

\* _confirm_weak_completion: the answer and the detector's next state
ConfirmWeakCompletion(cd) ==
    IF cd.completion_start_time = NoTime
    THEN [confirmed |-> FALSE, cd |-> [cd EXCEPT !.completion_start_time = 0]]
    ELSE [confirmed |-> cd.completion_start_time >= COMPLETION_CONFIRMATION_DELAY,
          cd |-> cd]

\* _check_static_screen_completion: a placeholder that never completes
CheckStaticScreenCompletion(cd) == [is_complete |-> FALSE, duration |-> 0]

\* update_static_screen_status
UpdateStaticScreenStatus(cd, is_static, duration) ==
    IF is_static
    THEN (IF cd.static_screen_start = NoTime
          THEN [cd EXCEPT !.static_screen_start = 0] ELSE cd)
    ELSE [cd EXCEPT !.static_screen_start = NoTime]

\* set_task_type
SetTaskType(cd, task_type) == [cd EXCEPT !.task_type = task_type]

CompletionResult(is_complete, confidence, method, indicators, cd) ==
    [is_complete |-> is_complete, confidence |-> confidence, method |-> method,
     indicators |-> indicators, cd |-> cd]

\* the indicator lists analyze_completion reads off the text: methods 1 to 4
TextSignals(screenshot_text, status_info, task_type) ==
    [strong |-> CheckStrongCompletionIndicators(screenshot_text),
     task_ind |-> CheckTaskSpecificCompletion(screenshot_text, task_type),
     llm |-> ValidateLLMCompletion(screenshot_text, status_info),
     weak |-> CheckWeakCompletionIndicators(screenshot_text)]

\* the body of analyze_completion below the extraction of the text: the
\* result dict, with the detector's next state in cd. _confirm_weak_completion
\* is called only when there are weak indicators.
AnalyzeSignals(cd, signals, status_info, task_type) ==
    IF signals.strong # <<>>
    THEN CompletionResult(TRUE, 95, "strong_indicators", signals.strong, cd)
    ELSE IF task_type # None /\ HasCompletionPatterns(task_type)
            /\ signals.task_ind # <<>>
    THEN CompletionResult(TRUE, 85, "task_specific", signals.task_ind, cd)
    ELSE IF status_info.is_complete /\ signals.llm.valid
    THEN CompletionResult(TRUE, 80, "llm_validated", signals.llm.indicators, cd)
    ELSE IF signals.weak # <<>> /\ ConfirmWeakCompletion(cd).confirmed
    THEN CompletionResult(TRUE, 70, "weak_indicators", signals.weak,
                          ConfirmWeakCompletion(cd).cd)
    ELSE IF CheckStaticScreenCompletion(cd).is_complete
    THEN CompletionResult(TRUE, 60, "static_screen", <<"static_screen">>,
                          IF signals.weak # <<>> THEN ConfirmWeakCompletion(cd).cd
                          ELSE cd)
    ELSE CompletionResult(FALSE, 0, "none", <<>>,
                          IF signals.weak # <<>> THEN ConfirmWeakCompletion(cd).cd
                          ELSE cd)

\* TextSignals on the texts and task types of the model, evaluated once
TextSignalsOf ==
    Tabulated([x \in (StatusTexts \cup {""}) \X BOOLEAN
                      \X ({None, "unknown"} \cup {TaskTypes[k] : k \in DOMAIN TaskTypes}) |->
                  TextSignals(x[1], [is_complete |-> x[2]], x[3])])
Signals(screenshot_text, status_info, task_type) ==
    IF <<screenshot_text, status_info.is_complete, task_type>> \in DOMAIN TextSignalsOf
    THEN TextSignalsOf[<<screenshot_text, status_info.is_complete, task_type>>]
    ELSE TextSignals(screenshot_text, status_info, task_type)

\* analyze_completion
AnalyzeCompletion(cd, screenshot_data, status_info, command, task_type) ==
    AnalyzeSignals(cd,
                   Signals(ExtractTextFromScreenshot(screenshot_data),
                           status_info, task_type),
                   status_info, task_type)

(***************************************************************************)
(* QuestionDetector (client/utils/question_detector.py)                    *)
(***************************************************************************)
HIGH_CONFIDENCE_PATTERNS ==
    <<"do you want to", "would you like to", "should i", "can i",
      "select", "choose", "pick", "option", "choice",
      "confirm", "proceed", "continue", "yes/no",
      "y/n", "r/v", "a/b", "1/2/3", "enter to", "press">>
MEDIUM_CONFIDENCE_PATTERNS ==
    <<"what", "which", "where", "when", "how", "why",
      "enter", "type", "input", "provide", "specify",
      "name", "path", "directory", "file", "folder",
      "framework", "library", "package", "version">>
LOW_CONFIDENCE_PATTERNS ==
    <<"please", "kindly", "could you", "would you",
      "if you", "when you", "after you", "before you",
      "ready", "waiting", "prompt", "input needed">>
FILE_OPERATION_PATTERNS ==
    <<"create file", "edit file", "modify file", "save file",
      "overwrite", "replace", "backup", "rename",
      "delete", "remove", "move", "copy">>
PERMISSION_PATTERNS ==
    <<"permission", "authorize", "allow", "grant",
      "sudo", "admin", "root", "privileges",
      "access", "install", "system", "global">>
CONFIGURATION_PATTERNS ==
    <<"configure", "setup", "install", "initialize",
      "settings", "preferences", "options", "parameters",
      "environment", "variables", "config", "profile">>

QUESTION_DETECTION_PATTERNS ==
    HIGH_CONFIDENCE_PATTERNS \o MEDIUM_CONFIDENCE_PATTERNS \o LOW_CONFIDENCE_PATTERNS
    \o FILE_OPERATION_PATTERNS \o PERMISSION_PATTERNS \o CONFIGURATION_PATTERNS

QUESTION_CONCEPTS ==
    <<"file", "directory", "path", "name", "create", "edit", "delete",
      "install", "configure", "setup", "permission", "access",
      "framework", "library", "package", "version", "option",
      "choice", "select", "confirm", "proceed", "continue">>

CONF_HIGH == 95
CONF_MEDIUM == 85
CONF_LOW == 70
CONF_FILE_OPERATION == 90
CONF_PERMISSION == 88
CONF_CONFIGURATION == 85
CONF_QUESTION_MARK == 80
CONF_NUMBERED == 92
CONF_SELECTION == 90
CONF_YES_NO == 88

\* re.search(r'\d+\.', text)
HasNumberedOption(text) ==
    \E i \in 1..(Len(text) - 1) : IsIn(CharAt(text, i), Digits) /\ CharAt(text, i + 1) = "."

\* re.search(r'[>*]', text), the ASCII members of the character class
HasSelectionMarker(text) == Contains(text, ">") \/ Contains(text, "*")

\* re.search(r'\b(yes|no|y|n)\b', text)
HasYesNo(text) ==
    \E w \in {"yes", "no", "y", "n"} : PatternSearch(<<w>>, text)

\* the three confidence levels: a level is tried only while the confidence
\* is below the one above it
LevelPatterns(question_lower) ==
    IF AnyIn(HIGH_CONFIDENCE_PATTERNS, question_lower)
    THEN [confidence |-> CONF_HIGH, type |-> "high_confidence"]
    ELSE IF AnyIn(MEDIUM_CONFIDENCE_PATTERNS, question_lower)
    THEN [confidence |-> CONF_MEDIUM, type |-> "medium_confidence"]
    ELSE IF AnyIn(LOW_CONFIDENCE_PATTERNS, question_lower)
    THEN [confidence |-> CONF_LOW, type |-> "low_confidence"]
    ELSE [confidence |-> 0, type |-> "unknown"]

\* max_confidence = max(max_confidence, c); detected_type = t
Raise(acc, hit, confidence, type) ==
    IF hit THEN [confidence |-> Max(acc.confidence, confidence), type |-> type] ELSE acc

\* the question mark sets the type only when none was detected
RaiseGeneral(acc, hit) ==
    IF hit
    THEN [confidence |-> Max(acc.confidence, CONF_QUESTION_MARK),
          type |-> IF acc.type = "unknown" THEN "general" ELSE acc.type]
    ELSE acc

\* the specialized pattern lists, in the order of the dict
SpecializedPatterns(acc, question_lower) ==
    Raise(Raise(Raise(acc,
                      AnyIn(FILE_OPERATION_PATTERNS, question_lower),
                      CONF_FILE_OPERATION, "file_operation"),
                AnyIn(PERMISSION_PATTERNS, question_lower),
                CONF_PERMISSION, "permission"),
          AnyIn(CONFIGURATION_PATTERNS, question_lower),
          CONF_CONFIGURATION, "configuration")

\* _analyze_question_confidence
AnalyzeQuestionConfidence(question_text) ==
    Raise(Raise(Raise(RaiseGeneral(SpecializedPatterns(LevelPatterns(Lower(question_text)),
                                                       Lower(question_text)),
                                   Contains(question_text, "?")),
                      HasNumberedOption(question_text), CONF_NUMBERED, "numbered_options"),
                HasSelectionMarker(question_text), CONF_SELECTION, "selection_menu"),
          HasYesNo(Lower(question_text)), CONF_YES_NO, "yes_no")

\* truth value of a str-or-None
Truthy(text) == text # None /\ text # ""

\* the question texts of the model (confidence 0.80, 0.95, 0 and 0.95), and
\* _analyze_question_confidence on each, evaluated once
QuestionTexts == {"ok?", "y/n", "go on", "Do you want to proceed? (y/n)"}
ConfidenceOf == Tabulated([q \in QuestionTexts |-> AnalyzeQuestionConfidence(q)])
QuestionConfidence(question_text) ==
    IF question_text \in DOMAIN ConfidenceOf THEN ConfidenceOf[question_text]
    ELSE AnalyzeQuestionConfidence(question_text)

\* is_question
IsQuestion(status_info) ==
    IF ~status_info.needs_input \/ ~Truthy(status_info.question)
    THEN [is_question |-> FALSE, confidence |-> 0, type |-> "none"]
    ELSE LET analysis == QuestionConfidence(status_info.question)
         IN [is_question |-> TRUE, confidence |-> analysis.confidence,
             type |-> analysis.type]

\* difflib.SequenceMatcher.find_longest_match on a[alo..ahi], b[blo..bhi]:
\* <<i, j, k>> with a[i..i+k-1] = b[j..j+k-1], k largest, then i least, then
\* j least; k = 0 when nothing matches
MatchCandidates(a, alo, ahi, b, blo, bhi) ==
    {c \in (alo..ahi) \X (blo..bhi) \X (1..Min(ahi - alo + 1, bhi - blo + 1)) :
        /\ c[1] + c[3] - 1 <= ahi
        /\ c[2] + c[3] - 1 <= bhi
        /\ SubSeq(a, c[1], c[1] + c[3] - 1) = SubSeq(b, c[2], c[2] + c[3] - 1)}

FindLongestMatch(a, alo, ahi, b, blo, bhi) ==
    LET cands == MatchCandidates(a, alo, ahi, b, blo, bhi) IN
    IF cands = {} THEN <<alo, blo, 0>>
    ELSE CHOOSE c \in cands : \A d \in cands :
            \/ c[3] > d[3]
            \/ c[3] = d[3] /\ c[1] < d[1]
            \/ c[3] = d[3] /\ c[1] = d[1] /\ c[2] <= d[2]

\* the total size of get_matching_blocks
RECURSIVE MatchingSize(_, _, _, _, _, _)
MatchingSize(a, alo, ahi, b, blo, bhi) ==
    IF alo > ahi \/ blo > bhi THEN 0
    ELSE LET m == FindLongestMatch(a, alo, ahi, b, blo, bhi) IN
         IF m[3] = 0 THEN 0
         ELSE m[3] + MatchingSize(a, alo, m[1] - 1, b, blo, m[2] - 1)
                   + MatchingSize(a, m[1] + m[3], ahi, b, m[2] + m[3], bhi)

\* Ratios are pairs <<numerator, denominator>>.
\* SequenceMatcher(None, q1, q2).ratio()
SequenceRatio(q1, q2) ==
    IF Len(q1) + Len(q2) = 0 THEN <<1, 1>>
    ELSE <<2 * MatchingSize(q1, 1, Len(q1), q2, 1, Len(q2)), Len(q1) + Len(q2)>>

\* set(q.split())
Words(q) ==
    {SubSeq(q, i, j) : <<i, j>> \in
        {p \in (1..Len(q)) \X (1..Len(q)) :
            /\ p[1] <= p[2]
            /\ \A k \in p[1]..p[2] : ~IsSpace(CharAt(q, k))
            /\ (p[1] = 1 \/ IsSpace(CharAt(q, p[1] - 1)))
            /\ (p[2] = Len(q) \/ IsSpace(CharAt(q, p[2] + 1)))}}

\* len(A & B) / len(A | B)
Jaccard(A, B) == <<Cardinality(A \cap B), Cardinality(A \cup B)>>

\* _word_based_similarity
WordBasedSimilarity(q1, q2) ==
    IF Words(q1) = {} \/ Words(q2) = {} THEN <<0, 1>> ELSE Jaccard(Words(q1), Words(q2))

\* the end of the run of \w characters that starts at i
RECURSIVE WordRunEnd(_, _)
WordRunEnd(s, i) ==
    IF i < Len(s) /\ IsWordChar(CharAt(s, i + 1)) THEN WordRunEnd(s, i + 1) ELSE i

\* re.findall(r'\b\w+\.\w+\b', text), scanning from position i
RECURSIVE FindFileNames(_, _)
FindFileNames(s, i) ==
    IF i > Len(s) THEN {}
    ELSE IF IsWordChar(CharAt(s, i)) /\ BoundaryBefore(s, i)
            /\ WordRunEnd(s, i) + 2 <= Len(s)
            /\ CharAt(s, WordRunEnd(s, i) + 1) = "."
            /\ IsWordChar(CharAt(s, WordRunEnd(s, i) + 2))
    THEN LET f == WordRunEnd(s, WordRunEnd(s, i) + 2)
         IN {SubSeq(s, i, f)} \cup FindFileNames(s, f + 1)
    ELSE FindFileNames(s, i + 1)

\* re.findall(r'\b\d+\b', text)
FindNumbers(s) ==
    {SubSeq(s, p[1], p[2]) : p \in
        {p \in (1..Len(s)) \X (1..Len(s)) :
            /\ p[1] <= p[2]
            /\ \A k \in p[1]..p[2] : IsIn(CharAt(s, k), Digits)
            /\ BoundaryBefore(s, p[1])
            /\ BoundaryAfter(s, p[2])}}

\* _extract_patterns
ExtractPatterns(text) ==
    FindFileNames(text, 1) \cup FindNumbers(text)
    \cup {QUESTION_DETECTION_PATTERNS[k] : k \in
            {k \in 1..Len(QUESTION_DETECTION_PATTERNS) :
                Contains(text, QUESTION_DETECTION_PATTERNS[k])}}

\* _extract_concepts
ExtractConcepts(text) ==
    {QUESTION_CONCEPTS[k] : k \in
        {k \in 1..Len(QUESTION_CONCEPTS) : Contains(Lower(text), QUESTION_CONCEPTS[k])}}

\* _pattern_based_similarity and _semantic_similarity share this shape
SetSimilarity(A, B) ==
    IF A = {} /\ B = {} THEN <<1, 2>>
    ELSE IF A = {} \/ B = {} THEN <<0, 1>>
    ELSE Jaccard(A, B)

PatternBasedSimilarity(q1, q2) == SetSimilarity(ExtractPatterns(q1), ExtractPatterns(q2))
SemanticSimilarity(q1, q2) == SetSimilarity(ExtractConcepts(q1), ExtractConcepts(q2))

\* the weighted sum 0.3 seq + 0.3 word + 0.2 pattern + 0.2 semantic of four
\* ratios, as the ratio <<n, d>>
Weighted(s, w, p, c) ==
    <<3 * s[1] * w[2] * p[2] * c[2] + 3 * w[1] * s[2] * p[2] * c[2]
      + 2 * p[1] * s[2] * w[2] * c[2] + 2 * c[1] * s[2] * w[2] * p[2],
      10 * s[2] * w[2] * p[2] * c[2]>>

\* _calculate_question_similarity
CalculateQuestionSimilarity(q1, q2) ==
    Weighted(SequenceRatio(q1, q2), WordBasedSimilarity(q1, q2),
             PatternBasedSimilarity(q1, q2), SemanticSimilarity(q1, q2))

\* ratio >= percent / 100
RatioAtLeast(r, percent) == 100 * r[1] >= percent * r[2]

\* the reason _calculate_question_similarity gives for a score
SimilarityReason(sim) ==
    IF RatioAtLeast(sim, 85) THEN "high_similarity"
    ELSE IF RatioAtLeast(sim, 75) THEN "medium_similarity"
    ELSE IF RatioAtLeast(sim, 60) THEN "low_similarity"
    ELSE "different_questions"

SimilarityVerdict(sim) ==
    [is_same |-> RatioAtLeast(sim, QUESTION_SIMILARITY_THRESHOLD), score |-> sim,
     reason |-> SimilarityReason(sim)]

\* is_same_question
IsSameQuestion(current_question, previous_question) ==
    IF ~Truthy(current_question) \/ ~Truthy(previous_question)
    THEN [is_same |-> FALSE, score |-> <<0, 1>>, reason |-> "empty_question"]
    ELSE IF Lower(Strip(current_question)) = Lower(Strip(previous_question))
    THEN [is_same |-> TRUE, score |-> <<1, 1>>, reason |-> "exact_match"]
    ELSE SimilarityVerdict(CalculateQuestionSimilarity(Lower(Strip(current_question)),
                                                       Lower(Strip(previous_question))))

\* is_same_question on each pair of the model's question texts, evaluated
\* once
SameQuestionOf ==
    Tabulated([p \in (QuestionTexts \cup {""}) \X (QuestionTexts \cup {""}) |->
                  IsSameQuestion(p[1], p[2])])
\* an is_same_question that finds no two questions the same
C33_Mutant_SameQuestion(current_question, previous_question) ==
    [is_same |-> FALSE, score |-> <<0, 1>>, reason |-> "empty_question"]

SameQuestion(current_question, previous_question) ==
    IF <<current_question, previous_question>> \in DOMAIN SameQuestionOf
    THEN SameQuestionOf[<<current_question, previous_question>>]
    ELSE IsSameQuestion(current_question, previous_question)

\* The detector's state is [last_question_sent, question_history]; a history
\* entry is [question, confidence, type, timestamp] with the timestamp an age.
\* question_timestamps and last_question_time repeat the history's timestamps
\* and are never read.
QuestionDetectorInit == [last_question_sent |-> "", question_history |-> <<>>]

\* a deque that refuses a new item once it is full
C31_Mutant_DequeAppend(deque, item) ==
    IF Len(deque) >= QUESTION_CONTEXT_WINDOW THEN deque ELSE deque \o <<item>>

\* deque(maxlen = QUESTION_CONTEXT_WINDOW).append
DequeAppend(deque, item) ==
    IF Len(deque) >= QUESTION_CONTEXT_WINDOW
    THEN Tail(deque) \o <<item>> ELSE deque \o <<item>>

\* update_last_question
UpdateLastQuestion(qd, question, confidence, question_type) ==
    [last_question_sent |-> question,
     question_history |->
        DequeAppend(qd.question_history,
                    [question |-> question, confidence |-> confidence,
                     type |-> question_type, timestamp |-> 0])]

\* clear_last_question
ClearLastQuestion(qd) == QuestionDetectorInit

\* get_last_question
GetLastQuestion(qd) == qd.last_question_sent

\* is_recent_question
IsRecentQuestion(qd, question, time_window) ==
    \E k \in 1..Len(qd.question_history) :
        /\ qd.question_history[k].timestamp <= time_window
        /\ SameQuestion(question, qd.question_history[k].question).is_same

ALWAYS_SEND_CONFIDENCE == 85
MEDIUM_SEND_CONFIDENCE == 70
RECENT_WINDOW == 30
MEDIUM_WINDOW == 10
LOW_WINDOW == 5

\* should_send_question_notification without its recency checks
C9_Mutant_ShouldSend(qd, question, confidence) == TRUE

\* should_send_question_notification
ShouldSendQuestionNotification(qd, question, confidence) ==
    IF confidence >= ALWAYS_SEND_CONFIDENCE THEN TRUE
    ELSE IF IsRecentQuestion(qd, question, RECENT_WINDOW) THEN FALSE
    ELSE IF confidence >= MEDIUM_SEND_CONFIDENCE THEN ~IsRecentQuestion(qd, question, MEDIUM_WINDOW)
    ELSE ~IsRecentQuestion(qd, question, LOW_WINDOW)

(***************************************************************************)
(* TerminalClaudeWrapper (client/claudeOnTheBeach.py): the state           *)
(***************************************************************************)
MaxSessions == 2
MaxScreens == 1
MaxTicks == 1

TaskIds == 1..MaxSessions
HandlerId == 0
NoActor == 0 - 1
Hashes == 1..MaxScreens
NoImage == NoHash

\* the Telegram messages of the model: a text that is a command or, while a
\* question is open, the answer to it, and a double-slash command
Messages == {"install dependencies", "//help"}

\* the values a backend reply can carry
ReportBodies ==
    {[status |-> "Installing dependencies", needs_input |-> FALSE,
      is_complete |-> FALSE, question |-> None, screenshots_match |-> FALSE],
     [status |-> "Installing packages... (esc to interrupt)", needs_input |-> FALSE,
      is_complete |-> TRUE, question |-> None, screenshots_match |-> TRUE],
     [status |-> "Ready for input", needs_input |-> FALSE,
      is_complete |-> TRUE, question |-> None, screenshots_match |-> TRUE],
     [status |-> "Confirm", needs_input |-> TRUE,
      is_complete |-> FALSE, question |-> "ok?", screenshots_match |-> TRUE],
     [status |-> "Confirm", needs_input |-> TRUE,
      is_complete |-> FALSE, question |-> "go on", screenshots_match |-> TRUE]}

AllKeys == RequiredKeys \cup {"screenshots_match"}

\* the backend's replies: a well-formed object, the same without the
\* optional key, a failed call, a text without JSON, an object that lacks
\* a required key
Replies ==
    {[error |-> FALSE, json |-> TRUE, keys |-> AllKeys, body |-> b] : b \in ReportBodies}
    \cup {[error |-> e, json |-> j, keys |-> k,
           body |-> CHOOSE b \in ReportBodies : b.status = "Ready for input"] :
            <<e, j, k>> \in {<<TRUE, FALSE, {}>>, <<FALSE, FALSE, {}>>,
                            <<FALSE, TRUE, RequiredKeys>>,
                            <<FALSE, TRUE, AllKeys \ {"is_complete"}>>}}

\* the commands a session can be started with, and classify_task on each
\* of them (evaluated once)
Commands ==
    Messages \cup {"Completion after input: " \o m : m \in Messages}
    \cup {"run the test suite", "/s", "Completion after input: /s"}
TaskTypeOf == Tabulated([c \in Commands |-> ClassifyTask(c)])

\* whether the classifier call of a reply failed: the backend raised, the
\* text held no JSON object, or a required key was missing
ReplyFailed(reply) == reply.error \/ ParseLLMResponse(reply).raised

VARIABLES
    claude_client,            \* whether an API client and LLMAnalyzer exist
    monitoring_paused,        \* the priority flag (command_priority mirrors it)
    waiting_for_input,        \* (last_was_waiting_for_input mirrors it)
    completion_sent,
    last_status_update,       \* an age
    last_status_text,
    screenshot_lock,          \* NoActor when free, else the holder
    active_monitoring_tasks,  \* the tracked smart_monitor_process tasks
    tasks,                    \* the smart_monitor_process tasks by id
    question_detector,
    static_screen_detector,
    completion_detector,
    handler,                  \* handle_telegram_commands: its position and locals
    ticks,                    \* how often the clock advanced
    event                     \* what the last step did

vars == <<claude_client, monitoring_paused, waiting_for_input, completion_sent,
          last_status_update, last_status_text, screenshot_lock,
          active_monitoring_tasks, tasks, question_detector,
          static_screen_detector, completion_detector, handler, ticks, event>>

\* A task: its await point (pc), the coroutine's arguments and locals, whether
\* cancel() was called on it, how it ended, how many completion notices it
\* has sent, the kinds of notice its current pass has sent, and the question
\* its last classified passes reported with the number of question notices
\* sent since that question first appeared, and the text of the last status
\* notice it sent.
NoRun == [question |-> "", notices |-> 0]

NoTask ==
    [pc |-> "none", command |-> "", start_time |-> NoTime, cancel |-> FALSE,
     outcome |-> "none", process_complete |-> FALSE, current_time |-> NoTime,
     should_send_status |-> FALSE, status_msg |-> "", shot |-> NoImage,
     shot_type |-> "none", completions |-> 0, noticed |-> {}, asked |-> NoRun,
     sent_status |-> ""]

NewTask(command) == [NoTask EXCEPT !.pc = "start", !.command = command]

Finished(task, outcome) ==
    [NoTask EXCEPT !.pc = "done", !.outcome = outcome, !.completions = task.completions,
                   !.sent_status = task.sent_status]

Live(t) == tasks[t].pc \notin {"none", "done"}

IdleHandler == [pc |-> "idle", text |-> "", kind |-> "none", awaiting |-> NoActor,
                pending |-> {}]

\* an event: who stepped, whether the step belongs to a pass of the
\* monitoring loop (and to its first pass), the notice it handed to
\* send_to_telegram, whether it captured the window (and under the lock or
\* not), and for a step that ended a classification: whether the call
\* failed, the report's is_complete and needs_input, the classifier's own
\* is_complete, whether its status text carries an active-processing mark
\* and no model-switch phrase, the tick's is_complete after arbitration and
\* validation, the question decision with its text and confidence, and the
\* status message of a pass that took the status branch
Quiet(actor) ==
    [actor |-> actor, tick |-> FALSE, first_tick |-> FALSE, notice |-> "none",
     capture |-> "none", classified |-> FALSE,
     failed |-> FALSE, report_complete |-> FALSE, report_needs_input |-> FALSE,
     raw_complete |-> FALSE, active_text |-> FALSE, verdict |-> FALSE,
     should_send |-> FALSE, question |-> "", confidence |-> 0, status_text |-> ""]

Init ==
    /\ claude_client \in BOOLEAN
    /\ monitoring_paused = FALSE
    /\ waiting_for_input = FALSE
    /\ completion_sent = FALSE
    /\ last_status_update = STATUS_UPDATE_INTERVAL
    /\ last_status_text = ""
    /\ screenshot_lock = NoActor
    /\ active_monitoring_tasks = {}
    /\ tasks = [t \in TaskIds |-> NoTask]
    /\ question_detector = QuestionDetectorInit
    /\ static_screen_detector = StaticDetectorInit
    /\ completion_detector = CompletionDetectorInit
    /\ handler = IdleHandler
    /\ ticks = 0
    /\ event = Quiet(NoActor)

(***************************************************************************)
(* smart_monitor_process: one action per stretch between two awaits        *)
(***************************************************************************)
TickEvent(t) == [Quiet(t) EXCEPT !.tick = TRUE]

\* whether a task that was asked to stop observes it at its next await
CancelRequested(task) == task.cancel

\* the prelude up to the initial wait
LoopStart(t) ==
    /\ tasks[t].pc = "start"
    /\ ~CancelRequested(tasks[t])
    /\ tasks' = [tasks EXCEPT ![t].pc = "initial_wait", ![t].start_time = 0]
    /\ event' = Quiet(t)
    /\ UNCHANGED <<claude_client, monitoring_paused, waiting_for_input,
                   completion_sent, last_status_update, last_status_text,
                   screenshot_lock, active_monitoring_tasks, question_detector,
                   static_screen_detector, completion_detector, handler, ticks>>

\* the tracking update and the sleep that end a pass with a primary image
EndOfPass(t, task, status_msg) ==
    /\ tasks' = [tasks EXCEPT ![t] =
                    [task EXCEPT !.pc = "sleep", !.status_msg = "", !.shot = NoImage,
                                 !.shot_type = "none", !.current_time = NoTime,
                                 !.should_send_status = FALSE, !.noticed = {}]]
    /\ last_status_text' = status_msg
    /\ last_status_update' = IF task.should_send_status THEN task.current_time
                             ELSE last_status_update

\* capture_terminal_screenshot_async up to its first await: the lock is
\* taken when free, else the caller waits for it
EnterCapture(who) == IF screenshot_lock = NoActor THEN who ELSE screenshot_lock
EnterCapturePc(free_pc, wait_pc) == IF screenshot_lock = NoActor THEN free_pc ELSE wait_pc

\* a pass that reports the timeout to the operator
C26_Mutant_LoopWake(t) ==
    /\ tasks[t].pc \in {"initial_wait", "sleep"}
    /\ ~CancelRequested(tasks[t])
    /\ LET task == tasks[t]
           ev == [TickEvent(t) EXCEPT !.first_tick = (task.pc = "initial_wait")]
           elapsed == task.start_time
           time_since_last == last_status_update
           should_check_completion == time_since_last >= COMPLETION_CHECK_INTERVAL
           should_send_status == time_since_last >= STATUS_UPDATE_INTERVAL
       IN IF monitoring_paused
          THEN /\ tasks' = [tasks EXCEPT ![t].pc = "sleep"]
               /\ event' = ev
               /\ UNCHANGED last_status_update
          ELSE IF elapsed > MAX_WAIT
          THEN /\ tasks' = [tasks EXCEPT ![t] = Finished(task, "TimedOut")]
               /\ event' = [ev EXCEPT !.notice = "status"]
               /\ UNCHANGED last_status_update
          ELSE IF should_check_completion \/ should_send_status
          THEN \E first_screenshot \in Hashes \cup {NoImage} :
                  /\ event' = [ev EXCEPT !.capture = "unlocked"]
                  /\ IF first_screenshot = NoImage
                     THEN /\ tasks' = [tasks EXCEPT ![t].pc = "sleep"]
                          /\ last_status_update' = 0
                     ELSE IF ~claude_client
                     THEN \* llm_analyzer is None: AttributeError ends the task
                          /\ tasks' = [tasks EXCEPT ![t] = Finished(task, "Crashed")]
                          /\ UNCHANGED last_status_update
                     ELSE /\ tasks' = [tasks EXCEPT ![t] =
                                 [task EXCEPT !.pc = "analyze", !.shot = first_screenshot,
                                              !.current_time = 0,
                                              !.should_send_status = should_send_status]]
                          /\ UNCHANGED last_status_update
          ELSE /\ tasks' = [tasks EXCEPT ![t].pc = "sleep"]
               /\ event' = ev
               /\ UNCHANGED last_status_update
    /\ UNCHANGED <<claude_client, monitoring_paused, waiting_for_input,
                   completion_sent, last_status_text, screenshot_lock,
                   active_monitoring_tasks, question_detector,
                   static_screen_detector, completion_detector, handler, ticks>>

\* a pass that leaves the timestamp alone when the capture fails
C28_Mutant_LoopWake(t) ==
    /\ tasks[t].pc \in {"initial_wait", "sleep"}
    /\ ~CancelRequested(tasks[t])
    /\ LET task == tasks[t]
           ev == [TickEvent(t) EXCEPT !.first_tick = (task.pc = "initial_wait")]
           elapsed == task.start_time
           time_since_last == last_status_update
           should_check_completion == time_since_last >= COMPLETION_CHECK_INTERVAL
           should_send_status == time_since_last >= STATUS_UPDATE_INTERVAL
       IN IF monitoring_paused
          THEN /\ tasks' = [tasks EXCEPT ![t].pc = "sleep"]
               /\ event' = ev
               /\ UNCHANGED last_status_update
          ELSE IF elapsed > MAX_WAIT
          THEN /\ tasks' = [tasks EXCEPT ![t] = Finished(task, "TimedOut")]
               /\ event' = ev
               /\ UNCHANGED last_status_update
          ELSE IF should_check_completion \/ should_send_status
          THEN \E first_screenshot \in Hashes \cup {NoImage} :
                  /\ event' = [ev EXCEPT !.capture = "unlocked"]
                  /\ IF first_screenshot = NoImage
                     THEN /\ tasks' = [tasks EXCEPT ![t].pc = "sleep"]
                          /\ UNCHANGED last_status_update
                     ELSE IF ~claude_client
                     THEN \* llm_analyzer is None: AttributeError ends the task
                          /\ tasks' = [tasks EXCEPT ![t] = Finished(task, "Crashed")]
                          /\ UNCHANGED last_status_update
                     ELSE /\ tasks' = [tasks EXCEPT ![t] =
                                 [task EXCEPT !.pc = "analyze", !.shot = first_screenshot,
                                              !.current_time = 0,
                                              !.should_send_status = should_send_status]]
                          /\ UNCHANGED last_status_update
          ELSE /\ tasks' = [tasks EXCEPT ![t].pc = "sleep"]
               /\ event' = ev
               /\ UNCHANGED last_status_update
    /\ UNCHANGED <<claude_client, monitoring_paused, waiting_for_input,
                   completion_sent, last_status_text, screenshot_lock,
                   active_monitoring_tasks, question_detector,
                   static_screen_detector, completion_detector, handler, ticks>>

\* the top of a pass: pause check, timeout, interval logic, dual capture
LoopWake(t) ==
    /\ tasks[t].pc \in {"initial_wait", "sleep"}
    /\ ~CancelRequested(tasks[t])
    /\ LET task == tasks[t]
           ev == [TickEvent(t) EXCEPT !.first_tick = (task.pc = "initial_wait")]
           elapsed == task.start_time
           time_since_last == last_status_update
           should_check_completion == time_since_last >= COMPLETION_CHECK_INTERVAL
           should_send_status == time_since_last >= STATUS_UPDATE_INTERVAL
       IN IF monitoring_paused
          THEN /\ tasks' = [tasks EXCEPT ![t].pc = "sleep"]
               /\ event' = ev
               /\ UNCHANGED last_status_update
          ELSE IF elapsed > MAX_WAIT
          THEN /\ tasks' = [tasks EXCEPT ![t] = Finished(task, "TimedOut")]
               /\ event' = ev
               /\ UNCHANGED last_status_update
          ELSE IF should_check_completion \/ should_send_status
          THEN \E first_screenshot \in Hashes \cup {NoImage} :
                  /\ event' = [ev EXCEPT !.capture = "unlocked"]
                  /\ IF first_screenshot = NoImage
                     THEN /\ tasks' = [tasks EXCEPT ![t].pc = "sleep"]
                          /\ last_status_update' = 0
                     ELSE IF ~claude_client
                     THEN \* llm_analyzer is None: AttributeError ends the task
                          /\ tasks' = [tasks EXCEPT ![t] = Finished(task, "Crashed")]
                          /\ UNCHANGED last_status_update
                     ELSE /\ tasks' = [tasks EXCEPT ![t] =
                                 [task EXCEPT !.pc = "analyze", !.shot = first_screenshot,
                                              !.current_time = 0,
                                              !.should_send_status = should_send_status]]
                          /\ UNCHANGED last_status_update
          ELSE /\ tasks' = [tasks EXCEPT ![t].pc = "sleep"]
               /\ event' = ev
               /\ UNCHANGED last_status_update
    /\ UNCHANGED <<claude_client, monitoring_paused, waiting_for_input,
                   completion_sent, last_status_text, screenshot_lock,
                   active_monitoring_tasks, question_detector,
                   static_screen_detector, completion_detector, handler, ticks>>

\* whether a status text carries the interrupt marker, a status word or a
\* running phrase, and no model-switch phrase
ActiveText(status) == ~Marks(status).completion /\ Marks(status).active

\* the condition under which the completion branch sends
MaySendCompletion(task) ==
    ~task.process_complete /\ ~monitoring_paused /\ ~completion_sent

\* the run of passes reporting one question: it goes on when the question
\* branch is taken with the same text, and starts anew otherwise
RunOf(asked, status_info) ==
    IF ~status_info.is_complete /\ IsQuestion(status_info).is_question
    THEN IF status_info.question = asked.question THEN asked
         ELSE [question |-> status_info.question, notices |-> 0]
    ELSE NoRun

\* the classifier's answer arrives: detectors, arbitration and the branch
\* taken, up to the branch's first await (each local is bound once)
LoopAnalyzed(t, reply) ==
    /\ tasks[t].pc = "analyze"
    /\ ~CancelRequested(tasks[t])
    /\ \E was \in {tasks[t]}, report \in {AnalyzeScreenshotWithLLM(claude_client, reply)},
          static \in {UpdateScreenshot(static_screen_detector, tasks[t].shot)},
          task_type \in {TaskTypeOf[tasks[t].command]} :
       \E cd1 \in {UpdateStaticScreenStatus(completion_detector, static.result.is_static,
                                            static.result.static_duration)} :
       \E completion_analysis \in
             {AnalyzeCompletion(SetTaskType(cd1, task_type), was.shot, report,
                                was.command, task_type)} :
       \E status_info \in
             {IF completion_analysis.is_complete
              THEN [report EXCEPT !.is_complete = TRUE,
                      !.status = "Task completed (" \o completion_analysis.method \o ")"]
              ELSE report} :
       \E task \in {[was EXCEPT !.asked = RunOf(was.asked, status_info)]} :
       \E ev \in
             {[TickEvent(t) EXCEPT
                 !.classified = TRUE, !.failed = ReplyFailed(reply),
                 !.report_complete = report.is_complete,
                 !.report_needs_input = report.needs_input,
                 !.raw_complete = (~ReplyFailed(reply) /\ reply.body.is_complete),
                 !.active_text = (~ReplyFailed(reply) /\ ActiveText(reply.body.status)),
                 !.verdict = IF status_info.is_complete
                             THEN ValidateCompletionStatus(status_info).is_complete
                             ELSE FALSE]} :
          /\ static_screen_detector' = static.sd
          /\ completion_detector' = completion_analysis.cd
          /\ IF status_info.is_complete
             THEN \E status_msg \in {"[ok] " \o status_info.status} :
                  IF MaySendCompletion(task)
                  THEN /\ tasks' = [tasks EXCEPT ![t] =
                              [task EXCEPT !.pc = "send_completion",
                                           !.status_msg = status_msg,
                                           !.noticed = {"completion"},
                                           !.completions = Min(task.completions + 1, 2)]]
                       /\ event' = [ev EXCEPT !.notice = "completion"]
                       /\ UNCHANGED <<last_status_text, last_status_update,
                                      waiting_for_input, question_detector,
                                      screenshot_lock>>
                  ELSE /\ EndOfPass(t, task, status_msg)
                       /\ event' = ev
                       /\ UNCHANGED <<waiting_for_input, question_detector,
                                      screenshot_lock>>
             ELSE IF IsQuestion(status_info).is_question
             THEN \E q \in {IsQuestion(status_info)},
                     question_text \in {status_info.question},
                     status_msg \in {"[?] " \o status_info.status} :
                  \E should_send \in
                        {/\ ~SameQuestion(question_text,
                                          GetLastQuestion(question_detector)).is_same
                         /\ ~monitoring_paused
                         /\ ShouldSendQuestionNotification(question_detector,
                                                           question_text, q.confidence)} :
                     /\ waiting_for_input' = TRUE
                     /\ event' = [ev EXCEPT !.question = question_text,
                                            !.confidence = q.confidence,
                                            !.should_send = should_send]
                     /\ IF should_send
                        THEN /\ question_detector' =
                                   UpdateLastQuestion(question_detector, question_text,
                                                      q.confidence, q.type)
                             /\ screenshot_lock' = EnterCapture(t)
                             /\ tasks' = [tasks EXCEPT ![t] =
                                   [task EXCEPT !.pc = EnterCapturePc("shot_pre", "shot_lock"),
                                                !.shot_type = "question",
                                                !.status_msg = status_msg]]
                             /\ UNCHANGED <<last_status_text, last_status_update>>
                        ELSE /\ EndOfPass(t, task, status_msg)
                             /\ UNCHANGED <<question_detector, screenshot_lock>>
             ELSE \E status_msg \in {"[..] " \o status_info.status} :
                  IF status_msg # last_status_text /\ task.should_send_status
                     /\ ~monitoring_paused
                  THEN /\ tasks' = [tasks EXCEPT ![t] =
                              [task EXCEPT !.pc = "send_status", !.status_msg = status_msg,
                                           !.noticed = {"status"},
                                           !.sent_status = status_msg]]
                       /\ event' = [ev EXCEPT !.notice = "status",
                                              !.status_text = status_msg]
                       /\ UNCHANGED <<last_status_text, last_status_update,
                                      waiting_for_input, question_detector,
                                      screenshot_lock>>
                  ELSE /\ EndOfPass(t, task, status_msg)
                       /\ event' = [ev EXCEPT !.status_text = status_msg]
                       /\ UNCHANGED <<waiting_for_input, question_detector,
                                      screenshot_lock>>
    /\ UNCHANGED <<claude_client, monitoring_paused, completion_sent,
                   active_monitoring_tasks, handler, ticks>>

\* a completion branch that neither records the completion nor leaves the
\* loop
C2_Mutant_LoopCompletionSent(t) ==
    /\ tasks[t].pc = "send_completion"
    /\ ~CancelRequested(tasks[t])
    /\ EndOfPass(t, tasks[t], tasks[t].status_msg)
    /\ event' = TickEvent(t)
    /\ UNCHANGED <<claude_client, monitoring_paused, waiting_for_input,
                   completion_sent, screenshot_lock, active_monitoring_tasks,
                   question_detector, static_screen_detector,
                   completion_detector, handler, ticks>>

\* a completion branch that keeps the question history
C25_Mutant_LoopCompletionSent(t) ==
    /\ tasks[t].pc = "send_completion"
    /\ ~CancelRequested(tasks[t])
    /\ completion_sent' = TRUE
    /\ waiting_for_input' = FALSE
    /\ screenshot_lock' = EnterCapture(t)
    /\ tasks' = [tasks EXCEPT ![t].process_complete = TRUE,
                              ![t].pc = EnterCapturePc("shot_pre", "shot_lock"),
                              ![t].shot_type = "completion"]
    /\ event' = TickEvent(t)
    /\ UNCHANGED <<claude_client, monitoring_paused, last_status_update,
                   last_status_text, active_monitoring_tasks, question_detector,
                   static_screen_detector, completion_detector, handler, ticks>>

\* the completion notice is out: the marks, then the completion screenshot
LoopCompletionSent(t) ==
    /\ tasks[t].pc = "send_completion"
    /\ ~CancelRequested(tasks[t])
    /\ completion_sent' = TRUE
    /\ question_detector' = ClearLastQuestion(question_detector)
    /\ waiting_for_input' = FALSE
    /\ screenshot_lock' = EnterCapture(t)
    /\ tasks' = [tasks EXCEPT ![t].process_complete = TRUE,
                              ![t].pc = EnterCapturePc("shot_pre", "shot_lock"),
                              ![t].shot_type = "completion"]
    /\ event' = TickEvent(t)
    /\ UNCHANGED <<claude_client, monitoring_paused, last_status_update,
                   last_status_text, active_monitoring_tasks,
                   static_screen_detector, completion_detector, handler, ticks>>

\* a status branch that goes on to the screenshot of the question branch
C23_Mutant_LoopStatusSent(t) ==
    /\ tasks[t].pc = "send_status"
    /\ ~CancelRequested(tasks[t])
    /\ screenshot_lock' = EnterCapture(t)
    /\ tasks' = [tasks EXCEPT ![t].pc = EnterCapturePc("shot_pre", "shot_lock"),
                              ![t].shot_type = "question"]
    /\ event' = TickEvent(t)
    /\ UNCHANGED <<claude_client, monitoring_paused, waiting_for_input,
                   completion_sent, last_status_update, last_status_text,
                   active_monitoring_tasks, question_detector,
                   static_screen_detector, completion_detector, handler, ticks>>

\* the status notice is out
LoopStatusSent(t) ==
    /\ tasks[t].pc = "send_status"
    /\ ~CancelRequested(tasks[t])
    /\ EndOfPass(t, tasks[t], tasks[t].status_msg)
    /\ event' = TickEvent(t)
    /\ UNCHANGED <<claude_client, monitoring_paused, waiting_for_input,
                   completion_sent, screenshot_lock, active_monitoring_tasks,
                   question_detector, static_screen_detector,
                   completion_detector, handler, ticks>>

\* capture_terminal_screenshot_async: the lock becomes free for a waiter
LoopLockAcquired(t) ==
    /\ tasks[t].pc = "shot_lock"
    /\ ~CancelRequested(tasks[t])
    /\ screenshot_lock = NoActor
    /\ screenshot_lock' = t
    /\ tasks' = [tasks EXCEPT ![t].pc = "shot_pre"]
    /\ event' = TickEvent(t)
    /\ UNCHANGED <<claude_client, monitoring_paused, waiting_for_input,
                   completion_sent, last_status_update, last_status_text,
                   active_monitoring_tasks, question_detector,
                   static_screen_detector, completion_detector, handler, ticks>>

\* capture_terminal_screenshot_async: the capture between its two sleeps
LoopCapture(t, image) ==
    /\ tasks[t].pc = "shot_pre"
    /\ ~CancelRequested(tasks[t])
    /\ tasks' = [tasks EXCEPT ![t].pc = "shot_post", ![t].shot = image]
    /\ event' = [TickEvent(t) EXCEPT !.capture = "locked"]
    /\ UNCHANGED <<claude_client, monitoring_paused, waiting_for_input,
                   completion_sent, last_status_update, last_status_text,
                   screenshot_lock, active_monitoring_tasks, question_detector,
                   static_screen_detector, completion_detector, handler, ticks>>

\* what follows the screenshot of a branch: the completion branch leaves
\* the loop, the question branch ends the pass
AfterShot(t, task) ==
    IF task.shot_type = "completion"
    THEN /\ tasks' = [tasks EXCEPT ![t] = Finished(task, "Completed")]
         /\ UNCHANGED <<last_status_text, last_status_update>>
    ELSE EndOfPass(t, task, task.status_msg)

\* capture_terminal_screenshot_async returns: the lock is released and the
\* image, if any, is handed to send_to_telegram
LoopShotDone(t) ==
    /\ tasks[t].pc = "shot_post"
    /\ ~CancelRequested(tasks[t])
    /\ screenshot_lock' = NoActor
    /\ IF tasks[t].shot # NoImage
       THEN /\ tasks' = [tasks EXCEPT ![t].pc = "send_shot",
                                      ![t].noticed = tasks[t].noticed
                                                       \cup {tasks[t].shot_type},
                                      ![t].asked.notices =
                                          IF tasks[t].shot_type = "question"
                                          THEN Min(tasks[t].asked.notices + 1, 2)
                                          ELSE tasks[t].asked.notices]
            /\ event' = [TickEvent(t) EXCEPT !.notice = tasks[t].shot_type]
            /\ UNCHANGED <<last_status_text, last_status_update>>
       ELSE /\ AfterShot(t, tasks[t])
            /\ event' = TickEvent(t)
    /\ UNCHANGED <<claude_client, monitoring_paused, waiting_for_input,
                   completion_sent, active_monitoring_tasks, question_detector,
                   static_screen_detector, completion_detector, handler, ticks>>

\* the screenshot is out
LoopShotSent(t) ==
    /\ tasks[t].pc = "send_shot"
    /\ ~CancelRequested(tasks[t])
    /\ AfterShot(t, tasks[t])
    /\ event' = TickEvent(t)
    /\ UNCHANGED <<claude_client, monitoring_paused, waiting_for_input,
                   completion_sent, screenshot_lock, active_monitoring_tasks,
                   question_detector, static_screen_detector,
                   completion_detector, handler, ticks>>

\* CancelledError is raised at the await the task is waiting at; a lock held
\* in capture_terminal_screenshot_async is released on the way out
LoopCancelled(t) ==
    /\ Live(t)
    /\ CancelRequested(tasks[t])
    /\ tasks' = [tasks EXCEPT ![t] = Finished(tasks[t], "Cancelled")]
    /\ screenshot_lock' = IF screenshot_lock = t THEN NoActor ELSE screenshot_lock
    /\ event' = Quiet(t)
    /\ UNCHANGED <<claude_client, monitoring_paused, waiting_for_input,
                   completion_sent, last_status_update, last_status_text,
                   active_monitoring_tasks, question_detector,
                   static_screen_detector, completion_detector, handler, ticks>>

\* the done callback: active_monitoring_tasks.discard
DoneCallback(t) ==
    /\ tasks[t].pc = "done"
    /\ t \in active_monitoring_tasks
    /\ active_monitoring_tasks' = active_monitoring_tasks \ {t}
    /\ event' = Quiet(NoActor)
    /\ UNCHANGED <<claude_client, monitoring_paused, waiting_for_input,
                   completion_sent, last_status_update, last_status_text,
                   screenshot_lock, tasks, question_detector,
                   static_screen_detector, completion_detector, handler, ticks>>

(***************************************************************************)
(* handle_telegram_commands and start_monitoring_task                      *)
(***************************************************************************)
HandlerEvent == Quiet(HandlerId)

\* the id of the next task asyncio.create_task makes
NextId == CHOOSE t \in TaskIds : tasks[t].pc = "none" /\ \A u \in 1..(t - 1) : tasks[u].pc # "none"

\* cancel_existing_monitoring_tasks that cancels nothing
C5_Mutant_ToCancel(snapshot) == {}

\* the tasks of a snapshot that cancel_existing_monitoring_tasks cancels
ToCancel(snapshot) == {t \in snapshot : tasks[t].pc # "done"}

\* cancel_existing_monitoring_tasks that does not wait for the task
C3_Mutant_AwaitReturns(t) == TRUE

\* whether `await task` returns
AwaitReturns(t) == tasks[t].pc = "done"

\* where the handler goes once start_monitoring_task returned: the input
\* path still sends its reply
AfterStart(h) ==
    IF h.kind = "input" THEN [IdleHandler EXCEPT !.pc = "reply", !.kind = "input"]
    ELSE IdleHandler

\* start_monitoring_task that keeps the flag and the detectors of the
\* previous command
C30_Mutant_CreateMonitoringTask(h, command, cleared) ==
    /\ active_monitoring_tasks' =
          (IF cleared THEN {} ELSE active_monitoring_tasks) \cup {NextId}
    /\ UNCHANGED <<completion_sent, static_screen_detector, completion_detector>>
    /\ tasks' = [tasks EXCEPT ![NextId] = NewTask(command)]
    /\ handler' = AfterStart(h)

\* start_monitoring_task after cancel_existing_monitoring_tasks returned
CreateMonitoringTask(h, command, cleared) ==
    /\ active_monitoring_tasks' =
          (IF cleared THEN {} ELSE active_monitoring_tasks) \cup {NextId}
    /\ completion_sent' = FALSE
    /\ static_screen_detector' = StaticDetectorInit
    /\ completion_detector' = CompletionDetectorInit
    /\ tasks' = [tasks EXCEPT ![NextId] = NewTask(command)]
    /\ handler' = AfterStart(h)

\* cancel_existing_monitoring_tasks over the rest of its snapshot, then the
\* rest of start_monitoring_task
CancelThenCreate(h, command, snapshot, cleared) ==
    IF ToCancel(snapshot) # {}
    THEN \E t \in ToCancel(snapshot) :
            /\ tasks' = [tasks EXCEPT ![t].cancel = TRUE]
            /\ handler' = [h EXCEPT !.pc = "cancel_wait", !.text = command,
                                    !.awaiting = t, !.pending = snapshot \ {t}]
            /\ UNCHANGED <<active_monitoring_tasks, completion_sent,
                           static_screen_detector, completion_detector>>
    ELSE CreateMonitoringTask(h, command, cleared)

StartMonitoringTask(h, command) ==
    CancelThenCreate(h, command, active_monitoring_tasks,
                     active_monitoring_tasks # {})

IsDoubleSlash(cmd_stripped) ==
    Len(cmd_stripped) > 2 /\ SubSeq(cmd_stripped, 1, 2) = "//"

\* CommandRegistry.handle_command on the commands of the screenshot and the
\* recording-status handlers: whether a handler recognises the command, and
\* whether it returns True (the screenshot handler returns False when the
\* capture gives nothing)
ScreenshotCommands == {"/screenshot", "/sc", "/s"}
RecordingStatusCommands == {"/rec-status", "/rc-status", "/rs"}
Recognised(cmd_stripped) ==
    Lower(cmd_stripped) \in ScreenshotCommands \cup RecordingStatusCommands
HandleCommand(cmd_stripped, screenshot) ==
    IF Lower(cmd_stripped) \in ScreenshotCommands THEN screenshot # NoImage
    ELSE Lower(cmd_stripped) \in RecordingStatusCommands

\* what follows handle_command returning False: the path is chosen and run
\* to its first await
ChoosePath(cmd) ==
    IF IsDoubleSlash(Strip(cmd))
    THEN \* send_keys_to_terminal: before_screenshot, then the keystrokes
         /\ handler' = [IdleHandler EXCEPT !.pc = "deliver", !.kind = "dslash",
                                           !.text = SubSeq(Strip(cmd), 2, Len(Strip(cmd)))]
         /\ event' = [HandlerEvent EXCEPT !.capture = "unlocked"]
         /\ UNCHANGED monitoring_paused
    ELSE IF waiting_for_input
    THEN /\ monitoring_paused' = TRUE
         /\ handler' = [IdleHandler EXCEPT !.pc = "input_wait", !.kind = "input",
                                           !.text = cmd]
         /\ event' = HandlerEvent
    ELSE /\ monitoring_paused' = TRUE
         /\ handler' = [IdleHandler EXCEPT !.pc = "deliver", !.kind = "command",
                                           !.text = cmd]
         /\ event' = [HandlerEvent EXCEPT !.capture = "unlocked"]

\* a command message arrives: a recognised special command is handled (the
\* screenshot handler captures without the lock), and when its handler
\* returns False the failure status is sent first; any other message goes
\* on to its path
Receive(cmd) ==
    /\ handler.pc = "idle"
    /\ IsDoubleSlash(Strip(cmd)) \/ \E t \in TaskIds : tasks[t].pc = "none"
    /\ IF Recognised(Strip(cmd))
       THEN \E screenshot \in Hashes \cup {NoImage} :
               /\ handler' = IF HandleCommand(Strip(cmd), screenshot) THEN IdleHandler
                             ELSE [IdleHandler EXCEPT !.pc = "special_failed",
                                                      !.kind = "special", !.text = cmd]
               /\ event' = [HandlerEvent EXCEPT
                               !.capture = IF Lower(Strip(cmd)) \in ScreenshotCommands
                                           THEN "unlocked" ELSE "none",
                               !.notice = IF Lower(Strip(cmd)) \in ScreenshotCommands
                                             /\ screenshot # NoImage
                                          THEN "manual" ELSE "none"]
               /\ UNCHANGED monitoring_paused
       ELSE ChoosePath(cmd)
    /\ UNCHANGED <<claude_client, waiting_for_input, completion_sent,
                   last_status_update, last_status_text, screenshot_lock,
                   active_monitoring_tasks, tasks, question_detector,
                   static_screen_detector, completion_detector, ticks>>

\* the failure status of a special command is out: handle_command returns
\* False and the message goes on to its path
SpecialFailed ==
    /\ handler.pc = "special_failed"
    /\ ChoosePath(handler.text)
    /\ UNCHANGED <<claude_client, waiting_for_input, completion_sent,
                   last_status_update, last_status_text, screenshot_lock,
                   active_monitoring_tasks, tasks, question_detector,
                   static_screen_detector, completion_detector, ticks>>

\* the input path after its short sleep: send_keys_to_terminal begins
InputDeliver ==
    /\ handler.pc = "input_wait"
    /\ handler' = [handler EXCEPT !.pc = "deliver"]
    /\ event' = [HandlerEvent EXCEPT !.capture = "unlocked"]
    /\ UNCHANGED <<claude_client, monitoring_paused, waiting_for_input,
                   completion_sent, last_status_update, last_status_text,
                   screenshot_lock, active_monitoring_tasks, tasks,
                   question_detector, static_screen_detector,
                   completion_detector, ticks>>

\* _execute_single_command returns
DeliveryDone(success) ==
    /\ handler.pc = "deliver"
    /\ event' = HandlerEvent
    /\ IF handler.kind = "dslash"
       THEN /\ handler' = [handler EXCEPT !.pc = IF success THEN "ds_sleep" ELSE "reply"]
            /\ UNCHANGED <<monitoring_paused, waiting_for_input, tasks,
                           active_monitoring_tasks, completion_sent,
                           static_screen_detector, completion_detector>>
       ELSE IF handler.kind = "input"
       THEN IF success
            THEN /\ waiting_for_input' = FALSE
                 /\ monitoring_paused' = FALSE
                 /\ StartMonitoringTask(handler, "Completion after input: " \o handler.text)
            ELSE /\ handler' = [handler EXCEPT !.pc = "reply"]
                 /\ UNCHANGED <<monitoring_paused, waiting_for_input, tasks,
                                active_monitoring_tasks, completion_sent,
                                static_screen_detector, completion_detector>>
       ELSE IF success
            THEN /\ monitoring_paused' = FALSE
                 /\ StartMonitoringTask(handler, handler.text)
                 /\ UNCHANGED waiting_for_input
            ELSE /\ handler' = [handler EXCEPT !.pc = "reply"]
                 /\ UNCHANGED <<monitoring_paused, waiting_for_input, tasks,
                                active_monitoring_tasks, completion_sent,
                                static_screen_detector, completion_detector>>
    /\ UNCHANGED <<claude_client, last_status_update, last_status_text,
                   screenshot_lock, question_detector, ticks>>

\* cancel_existing_monitoring_tasks: the awaited task has finished
CancelWaitDone ==
    /\ handler.pc = "cancel_wait"
    /\ AwaitReturns(handler.awaiting)
    /\ CancelThenCreate(handler, handler.text, handler.pending, TRUE)
    /\ event' = HandlerEvent
    /\ UNCHANGED <<claude_client, monitoring_paused, waiting_for_input,
                   last_status_update, last_status_text, screenshot_lock,
                   question_detector, ticks>>

\* the status message that ends a path is out; the failed command path
\* clears the flag after it
HandlerReplied ==
    /\ handler.pc = "reply"
    /\ handler' = IdleHandler
    /\ monitoring_paused' = IF handler.kind = "command" THEN FALSE ELSE monitoring_paused
    /\ event' = HandlerEvent
    /\ UNCHANGED <<claude_client, waiting_for_input, completion_sent,
                   last_status_update, last_status_text, screenshot_lock,
                   active_monitoring_tasks, tasks, question_detector,
                   static_screen_detector, completion_detector, ticks>>

\* the double-slash path: after its sleep, capture_terminal_screenshot_async
DsEnterCapture ==
    /\ handler.pc \in {"ds_sleep", "ds_lock"}
    /\ screenshot_lock = NoActor \/ handler.pc = "ds_sleep"
    /\ screenshot_lock' = EnterCapture(HandlerId)
    /\ handler' = [handler EXCEPT !.pc = EnterCapturePc("ds_pre", "ds_lock")]
    /\ event' = HandlerEvent
    /\ UNCHANGED <<claude_client, monitoring_paused, waiting_for_input,
                   completion_sent, last_status_update, last_status_text,
                   active_monitoring_tasks, tasks, question_detector,
                   static_screen_detector, completion_detector, ticks>>

DsCapture ==
    /\ handler.pc = "ds_pre"
    /\ handler' = [handler EXCEPT !.pc = "ds_post"]
    /\ event' = [HandlerEvent EXCEPT !.capture = "locked"]
    /\ UNCHANGED <<claude_client, monitoring_paused, waiting_for_input,
                   completion_sent, last_status_update, last_status_text,
                   screenshot_lock, active_monitoring_tasks, tasks,
                   question_detector, static_screen_detector,
                   completion_detector, ticks>>

\* the lock is released; the screenshot, if any, and the status go out
DsShotDone(image) ==
    /\ handler.pc = "ds_post"
    /\ screenshot_lock' = NoActor
    /\ handler' = [handler EXCEPT !.pc = "reply"]
    /\ event' = [HandlerEvent EXCEPT
                    !.notice = IF image # NoImage THEN "claude-command" ELSE "none"]
    /\ UNCHANGED <<claude_client, monitoring_paused, waiting_for_input,
                   completion_sent, last_status_update, last_status_text,
                   active_monitoring_tasks, tasks, question_detector,
                   static_screen_detector, completion_detector, ticks>>

(***************************************************************************)
(* The clock.  Timestamps are kept as ages; an age stops growing at the    *)
(* largest value the code compares it with (a question record: one second *)
(* past the timeout of the question context).                              *)
(***************************************************************************)
\* the steps of the clock: a second, a step past the short question window,
\* a step past the hard timeout
BigStep == MAX_WAIT + 1
MidStep == LOW_WINDOW + 1
TickSteps == {1, MidStep, BigStep}

Older(age, d, cap) == IF age = NoTime THEN NoTime ELSE Min(age + d, cap)

Tick(d) ==
    /\ d # BigStep => ticks < MaxTicks
    /\ ticks' = IF d # BigStep THEN ticks + 1 ELSE ticks
    /\ last_status_update' = Older(last_status_update, d, STATUS_UPDATE_INTERVAL)
    /\ tasks' = [t \in TaskIds |->
                   [tasks[t] EXCEPT
                      !.start_time = Older(tasks[t].start_time, d, MAX_WAIT + 1),
                      !.current_time = Older(tasks[t].current_time, d,
                                             STATUS_UPDATE_INTERVAL)]]
    /\ question_detector' =
          [question_detector EXCEPT !.question_history =
              [k \in 1..Len(question_detector.question_history) |->
                  [question_detector.question_history[k] EXCEPT
                      !.timestamp = Older(question_detector.question_history[k].timestamp,
                                          d, QUESTION_TIMEOUT_SECONDS + 1)]]]
    /\ static_screen_detector' =
          [static_screen_detector EXCEPT
              !.static_start_time = Older(static_screen_detector.static_start_time, d,
                                          STATIC_SCREEN_TIMEOUT)]
    /\ completion_detector' =
          [completion_detector EXCEPT
              !.completion_start_time = Older(completion_detector.completion_start_time,
                                              d, COMPLETION_CONFIRMATION_DELAY)]
    /\ event' = Quiet(NoActor)
    /\ UNCHANGED <<claude_client, monitoring_paused, waiting_for_input,
                   completion_sent, last_status_text, screenshot_lock,
                   active_monitoring_tasks, handler>>

LoopStep(t) ==
    \/ LoopStart(t)
    \/ LoopWake(t)
    \/ \E reply \in Replies : LoopAnalyzed(t, reply)
    \/ LoopCompletionSent(t)
    \/ LoopStatusSent(t)
    \/ LoopLockAcquired(t)
    \/ \E image \in Hashes \cup {NoImage} : LoopCapture(t, image)
    \/ LoopShotDone(t)
    \/ LoopShotSent(t)
    \/ LoopCancelled(t)

HandlerStep ==
    \/ InputDeliver
    \/ \E success \in BOOLEAN : DeliveryDone(success)
    \/ CancelWaitDone
    \/ HandlerReplied
    \/ DsEnterCapture
    \/ DsCapture
    \/ \E image \in Hashes \cup {NoImage} : DsShotDone(image)

Next ==
    \/ \E cmd \in Messages : Receive(cmd)
    \/ InputDeliver
    \/ \E success \in BOOLEAN : DeliveryDone(success)
    \/ CancelWaitDone
    \/ HandlerReplied
    \/ DsEnterCapture
    \/ DsCapture
    \/ \E image \in Hashes \cup {NoImage} : DsShotDone(image)
    \/ \E t \in TaskIds : LoopStart(t)
    \/ \E t \in TaskIds : LoopWake(t)
    \/ \E t \in TaskIds, reply \in Replies : LoopAnalyzed(t, reply)
    \/ \E t \in TaskIds : LoopCompletionSent(t)
    \/ \E t \in TaskIds : LoopStatusSent(t)
    \/ \E t \in TaskIds : LoopLockAcquired(t)
    \/ \E t \in TaskIds, image \in Hashes \cup {NoImage} : LoopCapture(t, image)
    \/ \E t \in TaskIds : LoopShotDone(t)
    \/ \E t \in TaskIds : LoopShotSent(t)
    \/ \E t \in TaskIds : LoopCancelled(t)
    \/ \E t \in TaskIds : DoneCallback(t)
    \/ \E d \in TickSteps : Tick(d)

Spec == Init /\ [][Next]_vars

\* the same program when the special commands /s and /rs arrive as well
RegistryNext ==
    \/ \E cmd \in {"/s", "/rs"} : Receive(cmd)
    \/ SpecialFailed
    \/ Next

RegistrySpec == Init /\ [][RegistryNext]_vars

\* monitoring_loop, the housekeeping loop: its periodic static screen check,
\* one synchronous stretch (the capture takes no lock)
KeeperId == 0 - 2

\* a static screen check that does not look at active_monitoring_tasks
C38_Mutant_StaticCheck(screenshot) ==
    /\ \E static \in {UpdateScreenshot(static_screen_detector, screenshot)} :
          static_screen_detector' =
             IF screenshot = NoImage THEN static_screen_detector
             ELSE IF static.result.should_complete THEN StaticDetectorInit
             ELSE static.sd
    /\ event' = [Quiet(KeeperId) EXCEPT !.capture = "unlocked"]
    /\ UNCHANGED <<claude_client, monitoring_paused, waiting_for_input,
                   completion_sent, last_status_update, last_status_text,
                   screenshot_lock, active_monitoring_tasks, tasks,
                   question_detector, completion_detector, handler, ticks>>

StaticCheck(screenshot) ==
    /\ active_monitoring_tasks = {}
    /\ \E static \in {UpdateScreenshot(static_screen_detector, screenshot)} :
          static_screen_detector' =
             IF screenshot = NoImage THEN static_screen_detector
             ELSE IF static.result.should_complete THEN StaticDetectorInit
             ELSE static.sd
    /\ event' = [Quiet(KeeperId) EXCEPT !.capture = "unlocked"]
    /\ UNCHANGED <<claude_client, monitoring_paused, waiting_for_input,
                   completion_sent, last_status_update, last_status_text,
                   screenshot_lock, active_monitoring_tasks, tasks,
                   question_detector, completion_detector, handler, ticks>>

HousekeepingNext ==
    \/ \E screenshot \in Hashes \cup {NoImage} : StaticCheck(screenshot)
    \/ Next

HousekeepingSpec == Init /\ [][HousekeepingNext]_vars

\* asyncio runs every ready task, sleeps and sends end, and the clock moves
FairSpec ==
    /\ Spec
    /\ \A t \in TaskIds : WF_vars(LoopStep(t))
    /\ \A t \in TaskIds : WF_vars(DoneCallback(t))
    /\ WF_vars(HandlerStep)
    /\ WF_vars(Tick(BigStep))

(***************************************************************************)
(* The detectors on their own: each specification below calls the methods  *)
(* of one detector on inputs drawn from small sets, with the wrapper idle. *)
(* event holds the last call: its arguments and what it returned.          *)
(***************************************************************************)
WrapperIdle ==
    /\ claude_client = TRUE
    /\ monitoring_paused = FALSE
    /\ waiting_for_input = FALSE
    /\ completion_sent = FALSE
    /\ last_status_update = STATUS_UPDATE_INTERVAL
    /\ last_status_text = ""
    /\ screenshot_lock = NoActor
    /\ active_monitoring_tasks = {}
    /\ tasks = [t \in TaskIds |-> NoTask]
    /\ handler = IdleHandler

WrapperUnchanged ==
    UNCHANGED <<claude_client, monitoring_paused, waiting_for_input,
                completion_sent, last_status_update, last_status_text,
                screenshot_lock, active_monitoring_tasks, tasks, handler>>

NoCall == [op |-> "none"]

\* construction: the three detectors as __init__ leaves them
DetectorInit ==
    /\ WrapperIdle
    /\ question_detector = QuestionDetectorInit
    /\ static_screen_detector = StaticDetectorInit
    /\ completion_detector = CompletionDetectorInit
    /\ ticks = 0
    /\ event = NoCall

\* d seconds pass between two calls: every timestamp the detectors hold
\* grows older
DetectorClock(d) ==
    /\ ticks <= MaxTicks
    /\ ticks' = ticks + 1
    /\ question_detector' =
          [question_detector EXCEPT !.question_history =
              [k \in 1..Len(question_detector.question_history) |->
                  [question_detector.question_history[k] EXCEPT
                      !.timestamp = Older(question_detector.question_history[k].timestamp,
                                          d, RECENT_WINDOW + 1)]]]
    /\ static_screen_detector' =
          [static_screen_detector EXCEPT
              !.static_start_time = Older(static_screen_detector.static_start_time, d,
                                          STATIC_SCREEN_TIMEOUT)]
    /\ completion_detector' =
          [completion_detector EXCEPT
              !.completion_start_time = Older(completion_detector.completion_start_time,
                                              d, COMPLETION_CONFIRMATION_DELAY)]
    /\ event' = NoCall
    /\ WrapperUnchanged

\* QuestionDetector: update_last_question, should_send_question_notification
\* and is_same_question, and the clock between the calls
MaxRecords == 2

CallUpdateLastQuestion(question, confidence) ==
    /\ Len(question_detector.question_history) < MaxRecords
    /\ question_detector' =
          UpdateLastQuestion(question_detector, question, confidence,
                             QuestionConfidence(question).type)
    /\ event' = [op |-> "update_last_question", question |-> question,
                 confidence |-> confidence]
    /\ WrapperUnchanged
    /\ UNCHANGED <<static_screen_detector, completion_detector, ticks>>

CallShouldSend(question, confidence) ==
    /\ event' = [op |-> "should_send_question_notification",
                 question |-> question, confidence |-> confidence,
                 result |-> ShouldSendQuestionNotification(question_detector,
                                                           question, confidence)]
    /\ WrapperUnchanged
    /\ UNCHANGED <<question_detector, static_screen_detector,
                   completion_detector, ticks>>

CallIsSameQuestion(question) ==
    /\ event' = [op |-> "is_same_question", question |-> question,
                 result |-> SameQuestion(question, question)]
    /\ WrapperUnchanged
    /\ UNCHANGED <<question_detector, static_screen_detector,
                   completion_detector, ticks>>

QuestionNext ==
    \/ \E question \in {"ok?", "Do you want to proceed? (y/n)"},
          confidence \in {60, 80, 90} :
          \/ CallUpdateLastQuestion(question, confidence)
          \/ CallShouldSend(question, confidence)
    \/ \E question \in QuestionTexts \cup {""} : CallIsSameQuestion(question)
    \/ \E d \in {3, LOW_WINDOW + 1, MEDIUM_WINDOW + 1, RECENT_WINDOW + 1} :
          DetectorClock(d)

QuestionSpec == DetectorInit /\ [][QuestionNext]_vars

\* The completion side: the detector calls of one pass of the monitoring
\* loop, analyze_completion's body on a given text, validate_completion_status,
\* and the reset of the detectors a new command makes.

\* smart_monitor_process, from update_screenshot to analyze_completion
CallArbiter(first_screenshot, status_info, command) ==
    \E static \in {UpdateScreenshot(static_screen_detector, first_screenshot)},
       task_type \in {TaskTypeOf[command]} :
    \E completion_analysis \in
          {AnalyzeCompletion(
              SetTaskType(UpdateStaticScreenStatus(completion_detector,
                                                   static.result.is_static,
                                                   static.result.static_duration),
                          task_type),
              first_screenshot, status_info, command, task_type)} :
       /\ static_screen_detector' = static.sd
       /\ completion_detector' = completion_analysis.cd
       /\ event' = [op |-> "analyze_completion", before |-> static_screen_detector,
                    first_screenshot |-> first_screenshot,
                    status_info |-> status_info, task_type |-> task_type,
                    static_result |-> static.result,
                    result |-> [is_complete |-> completion_analysis.is_complete,
                                confidence |-> completion_analysis.confidence,
                                method |-> completion_analysis.method]]
       /\ WrapperUnchanged
       /\ UNCHANGED <<question_detector, ticks>>

\* analyze_completion below the extraction of the text, on a given text
CallAnalyzeSignals(screenshot_text, is_complete, task_type) ==
    \E signals \in {Signals(screenshot_text, [is_complete |-> is_complete], task_type)} :
    \E completion_analysis \in
          {AnalyzeSignals(completion_detector, signals,
                          [is_complete |-> is_complete], task_type)} :
       /\ completion_detector' = completion_analysis.cd
       /\ event' = [op |-> "analyze_signals", signals |-> signals,
                    is_complete |-> is_complete,
                    result |-> [is_complete |-> completion_analysis.is_complete,
                                confidence |-> completion_analysis.confidence,
                                method |-> completion_analysis.method]]
       /\ WrapperUnchanged
       /\ UNCHANGED <<question_detector, static_screen_detector, ticks>>

CallValidate(status_info) ==
    /\ event' = [op |-> "validate_completion_status", status_info |-> status_info,
                 result |-> ValidateCompletionStatus(status_info)]
    /\ WrapperUnchanged
    /\ UNCHANGED <<question_detector, static_screen_detector,
                   completion_detector, ticks>>

\* start_monitoring_task resets the two detectors
CallReset ==
    /\ static_screen_detector' = StaticDetectorInit
    /\ completion_detector' = CompletionDetectorInit
    /\ event' = [op |-> "reset"]
    /\ WrapperUnchanged
    /\ UNCHANGED <<question_detector, ticks>>

\* a report as _parse_llm_response returns it
StatusInfo(status, is_complete, question) ==
    [status |-> status, needs_input |-> question # None,
     is_complete |-> is_complete, question |-> question,
     screenshots_match |-> TRUE]

CompletionNext ==
    \/ \E first_screenshot \in 1..(MaxScreens + 1),
          status \in {"All tests pass", "Installing dependencies"},
          is_complete \in BOOLEAN,
          command \in {"run the test suite", "install dependencies"} :
          CallArbiter(first_screenshot, StatusInfo(status, is_complete, None), command)
    \/ \E screenshot_text \in {"All tests pass", "Installing dependencies",
                               "[ok] all tests pass + Running the tests",
                               "Ready for input"},
          is_complete \in BOOLEAN, task_type \in {None, "test"} :
          CallAnalyzeSignals(screenshot_text, is_complete, task_type)
    \/ \E status \in {"Installing dependencies", "Ready for input", "Grooving",
                      "Installing packages... (esc to interrupt)",
                      "[ok] all tests pass + Running the tests",
                      "Now using Sonnet (esc to interrupt)"},
          is_complete \in BOOLEAN,
          question \in {None, "Model limit reached, continue?",
                        "Continue? (esc to interrupt)"} :
          CallValidate(StatusInfo(status, is_complete, question))
    \/ CallReset
    \/ \E d \in {2, COMPLETION_CONFIRMATION_DELAY, STATIC_SCREEN_TIMEOUT} :
          DetectorClock(d)

CompletionSpec == DetectorInit /\ [][CompletionNext]_vars

\* StaticScreenDetector fed once per second: a second passes, then
\* update_screenshot is called on the hash of the screenshot.  fed counts
\* the calls in a row that were given this hash.
MaxFeeds == 33

FeedScreenshot(current_hash) ==
    /\ ticks < MaxFeeds
    /\ ticks' = ticks + 1
    /\ \E sd \in {[static_screen_detector EXCEPT
                     !.static_start_time =
                        Older(static_screen_detector.static_start_time, 1,
                              STATIC_SCREEN_TIMEOUT)]} :
       \E static \in {UpdateScreenshot(sd, current_hash)} :
          /\ static_screen_detector' = static.sd
          /\ event' = [op |-> "update_screenshot", current_hash |-> current_hash,
                       result |-> static.result,
                       fed |-> IF /\ event.op = "update_screenshot"
                                  /\ event.current_hash = current_hash
                               THEN event.fed + 1 ELSE 1]
    /\ WrapperUnchanged
    /\ UNCHANGED <<question_detector, completion_detector>>

StaticNext ==
    \/ \E current_hash \in 1..(MaxScreens + 1) : FeedScreenshot(current_hash)
    \/ CallReset

StaticSpec == DetectorInit /\ [][StaticNext]_vars

\* QuestionDetector's history: update_last_question and clear_last_question
\* called in any order, and the clock between the calls.  event.added lists
\* what was passed to update_last_question since the last clear.
MaxAppends == 7

HistoryInit ==
    /\ WrapperIdle
    /\ question_detector = QuestionDetectorInit
    /\ static_screen_detector = StaticDetectorInit
    /\ completion_detector = CompletionDetectorInit
    /\ ticks = 0
    /\ event = [op |-> "none", added |-> <<>>]

HistoryUpdate(question, confidence) ==
    /\ Len(event.added) < MaxAppends
    /\ \E question_type \in {QuestionConfidence(question).type} :
          /\ question_detector' =
                UpdateLastQuestion(question_detector, question, confidence,
                                   question_type)
          /\ event' = [op |-> "update_last_question",
                       added |-> Append(event.added,
                                        [question |-> question,
                                         confidence |-> confidence,
                                         type |-> question_type])]
    /\ WrapperUnchanged
    /\ UNCHANGED <<static_screen_detector, completion_detector, ticks>>

HistoryClear ==
    /\ question_detector' = ClearLastQuestion(question_detector)
    /\ event' = [op |-> "clear_last_question", added |-> <<>>]
    /\ WrapperUnchanged
    /\ UNCHANGED <<static_screen_detector, completion_detector, ticks>>

HistoryClock(d) ==
    /\ ticks <= MaxTicks
    /\ ticks' = ticks + 1
    /\ question_detector' =
          [question_detector EXCEPT !.question_history =
              [k \in 1..Len(question_detector.question_history) |->
                  [question_detector.question_history[k] EXCEPT
                      !.timestamp = Older(question_detector.question_history[k].timestamp,
                                          d, RECENT_WINDOW + 1)]]]
    /\ event' = [event EXCEPT !.op = "none"]
    /\ WrapperUnchanged
    /\ UNCHANGED <<static_screen_detector, completion_detector>>

HistoryNext ==
    \/ \E question \in {"ok?", "Do you want to proceed? (y/n)"} :
          HistoryUpdate(question, 80)
    \/ HistoryClear
    \/ \E d \in {1, LOW_WINDOW + 1} : HistoryClock(d)

HistorySpec == HistoryInit /\ [][HistoryNext]_vars

\* TaskClassifier: classify_task called on the empty command and then on
\* commands that grow by a word, up to MaxWords words; the classifier holds
\* its patterns only, so a call changes nothing
MaxWords == 3

RECURSIVE JoinWords(_)
JoinWords(words) ==
    IF words = <<>> THEN ""
    ELSE IF Len(words) = 1 THEN words[1]
    ELSE words[1] \o " " \o JoinWords(Tail(words))

CallClassifyTask(words) ==
    /\ \E command \in {JoinWords(words)} :
          event' = [op |-> "classify_task", words |-> words, command |-> command,
                    result |-> ClassifyTask(command)]
    /\ WrapperUnchanged
    /\ UNCHANGED <<question_detector, static_screen_detector,
                   completion_detector, ticks>>

ClassifyNext ==
    \/ event.op = "none" /\ CallClassifyTask(<<>>)
    \/ \E word \in {"Run", "tests", "create", "script", "find"} :
          /\ event.op = "classify_task"
          /\ Len(event.words) < MaxWords
          /\ CallClassifyTask(Append(event.words, word))

ClassifySpec == DetectorInit /\ [][ClassifyNext]_vars

(***************************************************************************)
(* Properties                                                              *)
(***************************************************************************)

\* C1: a classification whose backend call failed, or whose reply held no
\* JSON object or lacked a required key, yields a report with
\* is_complete = false and needs_input = false.
C1_FailedClassificationNotComplete ==
    (event.classified /\ event.failed)
        => (~event.report_complete /\ ~event.report_needs_input)

\* C2: within one run of smart_monitor_process the completion notice is
\* sent at most once, whatever the handler does in between.
C2_CompletionAtMostOnce == \A t \in TaskIds : tasks[t].completions <= 1

C2_Witness ==
    \E t \in TaskIds : tasks[t].completions = 1 /\ tasks[t].outcome = "Completed"

\* C3: at most one smart_monitor_process task is live (created and not yet
\* finished or cancelled) at any instant.
C3_AtMostOneLive == Cardinality({t \in TaskIds : Live(t)}) <= 1

C3_Witness == tasks[1].outcome = "Cancelled" /\ Live(2)

\* C4: when the classifier says is_complete = true and its status text
\* carries the interrupt marker, a status word or a running phrase and no
\* model-switch phrase, the tick ends with is_complete = false and sends no
\* completion notice.
C4_OverrideBeforeDecision ==
    (event.classified /\ event.raw_complete /\ event.active_text)
        => (~event.verdict /\ event.notice # "completion")

\* C5: a loop that has been superseded (a later task exists, so
\* cancel_existing_monitoring_tasks has returned and the next loop was
\* created) performs no pass, no capture and no notification.
C5_SupersededSilent ==
    \A t \in TaskIds :
        (event.actor = t
         /\ (event.tick \/ event.notice # "none" \/ event.capture # "none"))
            => \A u \in TaskIds : u > t => tasks[u].pc = "none"

C5_Witness == tasks[1].outcome = "Cancelled" /\ event.actor = 2 /\ event.tick

\* C6: no loop captures the window between the begin and the end of the
\* delivery of a command or of an input response to the terminal.
C6_NoCaptureDuringDelivery ==
    ~(/\ handler.pc = "deliver"
      /\ handler.kind \in {"command", "input"}
      /\ event.actor \in TaskIds
      /\ event.capture # "none")

\* C7: the priority flag is set whenever the handler is delivering
\* keystrokes to the terminal, on each of its paths.
C7_FlagSetBeforeInjection == handler.pc = "deliver" => monitoring_paused

\* a message arrives at handle_telegram_commands
Arrival == \E cmd \in Messages : Receive(cmd)

\* C8: with the classifier configured, and unless messages keep arriving for
\* ever, every run of smart_monitor_process eventually ends Completed,
\* TimedOut or Cancelled when the loops, the handler and the clock are
\* scheduled fairly.
C8_SessionsTerminate ==
    \/ []<><<Arrival>>_vars
    \/ \A t \in TaskIds :
          (claude_client /\ tasks[t].pc # "none")
              ~> (tasks[t].outcome \in {"Completed", "TimedOut", "Cancelled"})

\* C9: a question is decided to be notified, at a confidence below 0.85,
\* only if no record of the history inside the window of that confidence
\* (10 s from 0.70 on, 5 s below) is a same-question match of it.
C9_QuestionOutsideWindow ==
    [][(event'.should_send /\ event'.confidence < 85)
        => ~\E k \in 1..Len(question_detector.question_history) :
              /\ question_detector.question_history[k].timestamp
                    <= (IF event'.confidence >= 70 THEN 10 ELSE 5)
              /\ SameQuestion(event'.question,
                              question_detector.question_history[k].question).is_same]_vars

C9_Witness ==
    /\ event.should_send
    /\ event.confidence < 85
    /\ \E k \in 1..(Len(question_detector.question_history) - 1) :
          /\ question_detector.question_history[k].question = event.question
          /\ question_detector.question_history[k].timestamp > 10

\* C10: at the first pass of every run of smart_monitor_process the question
\* history and the last question are empty.
C10_HistoryEmptyAtFirstTick ==
    event.first_tick => question_detector = QuestionDetectorInit

\* a record of the history that is a same-question match of the question
\* and at most window seconds old
MatchWithin(question, window) ==
    \E k \in 1..Len(question_detector.question_history) :
        /\ question_detector.question_history[k].timestamp <= window
        /\ SameQuestion(question, question_detector.question_history[k].question).is_same

\* C11: with a question recorded in the history, the call of
\* should_send_question_notification with the same text 3 seconds later
\* returns false, at confidence 0.9 too.
C11_DedupAfterThreeSeconds ==
    (/\ event.op = "should_send_question_notification"
     /\ \E k \in 1..Len(question_detector.question_history) :
           /\ question_detector.question_history[k].question = event.question
           /\ question_detector.question_history[k].timestamp = 3)
        => ~event.result

\* C12: should_send_question_notification returns true from confidence 0.85
\* on; from 0.70 on it returns false exactly when the history holds a
\* same-question record at most 10 s old; below 0.70 exactly when it holds
\* one at most 5 s old.
C12_ShouldNotifyByConfidence ==
    event.op = "should_send_question_notification"
        => event.result =
              (IF event.confidence >= 85 THEN TRUE
               ELSE IF event.confidence >= 70 THEN ~MatchWithin(event.question, 10)
               ELSE ~MatchWithin(event.question, 5))

\* C13: is_same_question(q, q) returns (true, 1.0, exact_match) for every
\* text q.
C13_SameQuestionReflexive ==
    event.op = "is_same_question"
        => event.result = [is_same |-> TRUE, score |-> <<1, 1>>, reason |-> "exact_match"]

\* the verdict of a completion path
Verdict(is_complete, confidence, method) ==
    [is_complete |-> is_complete, confidence |-> confidence, method |-> method]

\* no path above the static-screen fallback holds on the signals of a pass
NoHigherPath(signals, status_info, task_type) ==
    /\ signals.strong = <<>>
    /\ ~(task_type # None /\ HasCompletionPatterns(task_type) /\ signals.task_ind # <<>>)
    /\ ~(status_info.is_complete /\ signals.llm.valid)
    /\ signals.weak = <<>>

\* C14: analyze returns the verdict of the first path that holds, in the order
\* strong_indicators (0.95), task_specific (0.85), llm_validated (0.80),
\* weak_indicators (0.70), static_screen (0.60), and not complete, confidence
\* 0, method none when no path holds; a text with a strong indicator yields
\* strong_indicators also when it holds a running phrase.  (The dwell of the
\* weak path is left to C17.)
C14_FirstPathWins ==
    /\ event.op = "analyze_completion" =>
          \E signals \in {Signals(ExtractTextFromScreenshot(event.first_screenshot),
                                  event.status_info, event.task_type)} :
             \/ signals.weak # <<>>
             \/ event.result =
                   IF signals.strong # <<>> THEN Verdict(TRUE, 95, "strong_indicators")
                   ELSE IF /\ event.task_type # None
                           /\ HasCompletionPatterns(event.task_type)
                           /\ signals.task_ind # <<>>
                   THEN Verdict(TRUE, 85, "task_specific")
                   ELSE IF event.status_info.is_complete /\ signals.llm.valid
                   THEN Verdict(TRUE, 80, "llm_validated")
                   ELSE IF event.static_result.should_complete
                   THEN Verdict(TRUE, 60, "static_screen")
                   ELSE Verdict(FALSE, 0, "none")
    /\ (event.op = "analyze_signals" /\ event.signals.strong # <<>>) =>
          event.result = Verdict(TRUE, 95, "strong_indicators")

\* C15: "run the test suite" is classified as test, and a pass whose status
\* text holds a strong or task-specific completion phrase ("All tests pass")
\* ends with is_complete = true, method strong_indicators or task_specific,
\* confidence >= 0.85, whatever the classifier's is_complete flag.
C15_StatusTextCompletes ==
    /\ TaskTypeOf["run the test suite"] = "test"
    /\ event.op = "analyze_completion" =>
          \E signals \in {Signals(event.status_info.status, event.status_info,
                                  event.task_type)} :
             (\/ signals.strong # <<>>
              \/ /\ event.task_type # None
                 /\ HasCompletionPatterns(event.task_type)
                 /\ signals.task_ind # <<>>)
             => /\ event.result.is_complete
                /\ event.result.method \in {"strong_indicators", "task_specific"}
                /\ event.result.confidence >= 85

\* C16: when no higher path holds and the static-screen detector reported
\* should_complete = true for the pass, analyze returns is_complete = true,
\* method static_screen, confidence 0.60.
C16_StaticScreenCompletes ==
    (/\ event.op = "analyze_completion"
     /\ event.static_result.should_complete
     /\ NoHigherPath(Signals(ExtractTextFromScreenshot(event.first_screenshot),
                             event.status_info, event.task_type),
                     event.status_info, event.task_type))
    => event.result = Verdict(TRUE, 60, "static_screen")

C19_ModelSwitchCompletes ==
    (/\ event.op = "validate_completion_status"
     /\ \/ Marks(event.status_info.status).completion
        \/ /\ event.status_info.question # None
           /\ Marks(event.status_info.question).completion)
    => event.result.is_complete

\* C20: an update_screenshot whose hash differs from the detector's last one
\* (the first ever and the first after reset included) returns
\* is_static = false, duration 0, should_complete = false and clears
\* static_start_time; without a sample there is no static_start_time.
C20_ChangeResetsDuration ==
    /\ (/\ event.op = "analyze_completion"
        /\ event.first_screenshot # event.before.last_screenshot_hash)
       => /\ event.static_result = [is_static |-> FALSE, static_duration |-> 0,
                                    should_complete |-> FALSE]
          /\ static_screen_detector.static_start_time = NoTime
    /\ static_screen_detector.last_screenshot_hash = NoHash
          => static_screen_detector.static_start_time = NoTime

C20_Witness ==
    /\ event.op = "analyze_completion"
    /\ event.before.last_screenshot_hash # NoHash
    /\ event.before.static_start_time = STATIC_SCREEN_TIMEOUT
    /\ event.first_screenshot # event.before.last_screenshot_hash
    /\ ~event.static_result.is_static

\* C21: fed the same hash once per second, update_screenshot returns
\* should_complete = false on each of the first STATIC_SCREEN_TIMEOUT - 1
\* calls and true on the next one.
C21_CompleteAtTimeout ==
    (event.op = "update_screenshot" /\ event.fed <= STATIC_SCREEN_TIMEOUT)
        => event.result.should_complete = (event.fed = STATIC_SCREEN_TIMEOUT)

\* C22: without a classifier backend a pass that captured a screen goes on
\* with a report (is_complete = true, needs_input = false) to its completion
\* decision: no run of smart_monitor_process ends in an error.
C22_MissingBackendAbsorbed ==
    ~claude_client =>
        \A t \in TaskIds :
            tasks[t].outcome \in {"none", "Completed", "TimedOut", "Cancelled"}

\* C23: a pass of the loop sends at most one kind of notice (completion,
\* question or status), and a pass with a completion verdict neither
\* evaluates nor sends a question notice.
C23_OneKindOfNotice ==
    /\ \A t \in TaskIds : Cardinality(tasks[t].noticed) <= 1
    /\ (event.classified /\ event.verdict)
          => /\ ~event.should_send
             /\ event.question = ""
             /\ event.notice \in {"none", "completion"}

C23_Witness ==
    \E t \in TaskIds :
        /\ tasks[t].pc = "send_shot"
        /\ tasks[t].shot_type = "completion"
        /\ tasks[t].noticed = {"completion"}

\* C24: a question whose same-question records are all older than
\* QUESTION_TIMEOUT_SECONDS is treated as new by the pass that finds it (with
\* the priority flag clear): the decision is to send the question notice.
C24_OldRecordsIgnored ==
    [][(/\ event'.classified
        /\ event'.question # ""
        /\ ~monitoring_paused
        /\ \A k \in 1..Len(question_detector.question_history) :
              SameQuestion(event'.question,
                           question_detector.question_history[k].question).is_same
                 => question_detector.question_history[k].timestamp
                       > QUESTION_TIMEOUT_SECONDS)
       => event'.should_send]_vars

\* C25: the step that follows the sending of the completion notice marks
\* completion_sent, clears the question history and the waiting state and
\* asks for the completion screenshot; from then on the task makes no other
\* pass: it only takes and sends that screenshot and ends Completed (or is
\* cancelled on the way).
C25_CompletionEndsLoop ==
    [][\A t \in TaskIds :
          /\ (/\ tasks[t].pc = "send_completion"
              /\ tasks'[t].pc \notin {"send_completion", "done"})
             => /\ completion_sent'
                /\ question_detector' = QuestionDetectorInit
                /\ ~waiting_for_input'
                /\ tasks'[t].pc \in {"shot_pre", "shot_lock"}
                /\ tasks'[t].shot_type = "completion"
                /\ tasks'[t].process_complete
          /\ tasks[t].process_complete
             => /\ tasks'[t].pc \in {"shot_lock", "shot_pre", "shot_post",
                                     "send_shot", "done"}
                /\ tasks'[t].pc = "done"
                      => tasks'[t].outcome \in {"Completed", "Cancelled"}
                /\ ~(event'.actor = t /\ event'.classified)
                /\ (event'.actor = t /\ event'.capture # "none")
                      => event'.capture = "locked"]_vars

C25_Witness ==
    \E t \in TaskIds :
        /\ tasks[t].outcome = "Completed"
        /\ completion_sent
        /\ event.actor = t
        /\ question_detector = QuestionDetectorInit

C27_FlagClearedAfterDelivery ==
    [][/\ (monitoring_paused /\ ~monitoring_paused')
          => /\ handler.pc = "deliver"
             /\ handler.kind \in {"command", "input"}
             /\ handler'.pc # "reply"
       /\ \A t \in TaskIds :
             (tasks[t].pc = "none" /\ tasks'[t].pc = "start")
             => ~monitoring_paused']_vars

\* C28: a pass whose dual capture returns no primary image classifies
\* nothing, sends nothing, leaves the detectors, the question history and
\* the flags as they were, sets last_status_update to the current time, and
\* the task goes on to its next sleep.
C28_CaptureFailureSkipsPass ==
    [][\A t \in TaskIds :
          (/\ event'.actor = t /\ event'.tick
           /\ event'.capture = "unlocked"
           /\ tasks'[t].shot = NoImage
           /\ tasks'[t].pc # "done")
          => /\ tasks'[t].pc = "sleep" /\ tasks'[t].outcome = "none"
             /\ ~event'.classified /\ event'.notice = "none"
             /\ last_status_update' = 0
             /\ UNCHANGED <<static_screen_detector, completion_detector,
                            question_detector, waiting_for_input, completion_sent,
                            last_status_text, screenshot_lock>>]_vars

C28_Witness ==
    \E t \in TaskIds :
        /\ event.actor = t /\ event.tick /\ event.capture = "unlocked"
        /\ tasks[t].pc = "sleep"
        /\ last_status_update = 0
        /\ static_screen_detector.last_screenshot_hash # NoHash
        /\ Len(question_detector.question_history) > 0

\* C29: every capture of the window is made by the actor that holds
\* screenshot_lock, and no actor captures while another one holds it.
C29_CaptureUnderLock ==
    [][event'.capture # "none"
          => /\ screenshot_lock = event'.actor
             /\ screenshot_lock' = event'.actor]_vars

\* C30: when a new task makes its first pass, the static screen detector has
\* no previous hash, the completion detector's completion_start_time is
\* unset and completion_sent is false, whatever the task before it did.
C30_FreshStateAtFirstTick ==
    [][(event'.tick /\ event'.first_tick)
          => /\ static_screen_detector.last_screenshot_hash = NoHash
             /\ static_screen_detector.static_start_time = NoTime
             /\ completion_detector.completion_start_time = NoTime
             /\ ~completion_sent]_vars

C30_Witness ==
    /\ event.actor = 2 /\ event.tick /\ event.first_tick
    /\ event.capture = "unlocked"
    /\ tasks[1].outcome = "Completed"
    /\ ~completion_sent

\* C31: after any calls of update_last_question and clear_last_question the
\* history holds at most QUESTION_CONTEXT_WINDOW records, they are the last
\* ones added since the last clear, oldest first, and last_question_sent is
\* the question of the newest record, or empty when the history is empty.
C31_HistoryBounded ==
    \E h \in {question_detector.question_history}, added \in {event.added} :
        /\ Len(h) <= QUESTION_CONTEXT_WINDOW
        /\ Len(h) = Min(Len(added), QUESTION_CONTEXT_WINDOW)
        /\ \A k \in 1..Len(h) :
              \E a \in {added[Len(added) - Len(h) + k]} :
                 /\ h[k].question = a.question
                 /\ h[k].confidence = a.confidence
                 /\ h[k].type = a.type
        /\ \A k \in 1..(Len(h) - 1) : h[k].timestamp >= h[k + 1].timestamp
        /\ question_detector.last_question_sent =
              IF Len(h) = 0 THEN "" ELSE h[Len(h)].question

C31_Witness ==
    /\ event.op = "update_last_question"
    /\ Len(event.added) > QUESTION_CONTEXT_WINDOW
    /\ Len(question_detector.question_history) = QUESTION_CONTEXT_WINDOW
    /\ question_detector.question_history[1].timestamp > 0
    /\ question_detector.question_history[1].question # event.added[1].question

\* C32: classify_task returns the first task type, in the order test,
\* script, file, install, build, run, search, analyze, whose score is the
\* highest, provided that score is not zero; it returns unknown when every
\* score is zero or the command is empty.
C32_FirstHighestScore ==
    event.op = "classify_task" =>
       \E command \in {event.command}, result \in {event.result} :
          /\ TaskTypes = <<"test", "script", "file", "install", "build", "run",
                           "search", "analyze">>
          /\ IF command = "" \/ \A k \in 1..Len(TaskTypes) :
                                   TaskScore2(TaskTypes[k], command) = 0
             THEN result = "unknown"
             ELSE \E k \in 1..Len(TaskTypes) :
                     /\ result = TaskTypes[k]
                     /\ TaskScore2(result, command) > 0
                     /\ \A m \in 1..Len(TaskTypes) :
                           TaskScore2(TaskTypes[m], command) <= TaskScore2(result, command)
                     /\ \A m \in 1..(k - 1) :
                           TaskScore2(TaskTypes[m], command) < TaskScore2(result, command)

\* a tie between script and run, decided for script
C32_Witness ==
    /\ event.op = "classify_task"
    /\ event.command = "Run find"
    /\ event.result = "script"
    /\ TaskScore2("script", event.command) = TaskScore2("run", event.command)
    /\ TaskScore2("search", event.command) = TaskScore2("run", event.command)

\* C33: within one task, while the passes that reach the question branch
\* report the same question text, at most one question notice (the question
\* screenshot) is sent, and each such pass leaves waiting_for_input set.
C33_OneNoticePerQuestion ==
    /\ \A t \in TaskIds : tasks[t].asked.notices <= 1
    /\ (event.classified /\ event.question # "") => waiting_for_input
    /\ \A t \in TaskIds :
          (/\ tasks[t].pc \in {"shot_lock", "shot_pre", "shot_post", "send_shot"}
           /\ tasks[t].shot_type = "question"
           /\ ~CancelRequested(tasks[t]))
          => waiting_for_input
    /\ \A t \in TaskIds :
          (event.actor = t /\ event.tick /\ tasks[t].pc = "sleep"
           /\ tasks[t].asked.question # "")
          => waiting_for_input

\* a second pass reports the question the task has already sent a notice for
C33_Witness ==
    \E t \in TaskIds :
        /\ event.actor = t /\ event.classified
        /\ event.question = "ok?" /\ ~event.should_send
        /\ tasks[t].asked = [question |-> "ok?", notices |-> 1]

\* C34: whenever the priority flag (monitoring_paused) is set it is cleared
\* later on, when the handler, the loops and the clock are scheduled fairly.
C34_FlagEventuallyCleared == monitoring_paused ~> ~monitoring_paused

\* C35: no step of a monitoring loop hands a notice or a screenshot to
\* send_to_telegram while the priority flag (monitoring_paused) is set.
C35_NoNoticeWhilePaused ==
    (event.actor \in TaskIds /\ event.notice # "none") => ~monitoring_paused

\* C36: a pass of the status branch whose status notice is due (the status
\* interval has passed, the flag is clear) holds it back only when its text
\* is the text of the last status notice some task sent; and a task never
\* sends two status notices in a row with the same text.
C36_DuplicateOfLastSent ==
    [][\A t \in TaskIds :
          (/\ tasks[t].pc = "analyze"
           /\ event'.actor = t /\ event'.classified
           /\ event'.status_text # "")
          => /\ (/\ tasks[t].should_send_status
                 /\ ~monitoring_paused
                 /\ event'.notice = "none")
                => \E u \in TaskIds : tasks[u].sent_status = event'.status_text
             /\ event'.notice = "status"
                => tasks[t].sent_status # event'.status_text]_vars

\* C37: a message that a special-command handler recognises is never
\* delivered to the terminal as a command or as an input response, and no
\* monitoring task is started for it.
C37_SpecialNeverInjected ==
    /\ (handler.pc \in {"input_wait", "deliver"} /\ handler.kind \in {"command", "input"})
          => ~Recognised(Strip(handler.text))
    /\ \A t \in TaskIds :
          tasks[t].command \notin {"/s", "Completion after input: /s",
                                   "/rs", "Completion after input: /rs"}

\* C38: the housekeeping loop's static screen check acts on the static
\* screen detector only when no monitoring task is live; while a task is
\* live the detector changes only in a classifying pass of that task (the
\* clock aside).
C38_KeeperStaysAway ==
    [][/\ event'.actor = KeeperId => \A t \in TaskIds : ~Live(t)
       /\ \A t \in TaskIds :
             (/\ Live(t)
              /\ [static_screen_detector' EXCEPT !.static_start_time = NoTime]
                    # [static_screen_detector EXCEPT !.static_start_time = NoTime])
             => /\ event'.actor = t
                /\ event'.classified]_vars

\* the check has run after a task ended and left a hash in the detector
C38_Witness ==
    /\ event.actor = KeeperId
    /\ static_screen_detector.last_screenshot_hash # NoHash
    /\ \E t \in TaskIds : tasks[t].pc = "done"

\* C39: validate_completion_status applied to its own result returns it
\* unchanged: the same is_complete and the same status text.
C39_ValidateIdempotent ==
    event.op = "validate_completion_status" =>
       \E once \in {event.result} :
          \E twice \in {ValidateCompletionStatus(once)} :
             /\ twice.is_complete = once.is_complete
             /\ twice.status = once.status

\* a call that overrode both fields of its argument
C39_Witness ==
    /\ event.op = "validate_completion_status"
    /\ event.result.status # event.status_info.status
    /\ event.result.is_complete # event.status_info.is_complete
    /\ event.result.status = "Task completed (model switch detected)"

====
